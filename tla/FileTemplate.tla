---------------------------- MODULE FileTemplate ----------------------------
(***************************************************************************)
(* What a message of a JSON file has to look like: the templates of the    *)
(* page, its check of a message against them, and what the service reads   *)
(* when it makes the message.  The two were written apart; Legal is the    *)
(* meaning the templates suggest, against which both are compared.         *)
(*                                                                         *)
(* A JSON value is a record: its type t, the atom it is, or what it is     *)
(* made of.  A string stands for one that is not a numeral.                *)
(***************************************************************************)
EXTENDS Integers, Sequences, SequencesExt

JNum(n) == [t |-> "number", is |-> n]
JStr(s) == [t |-> "string", is |-> s]
JObj(of) == [t |-> "object", of |-> of]
JArr(of) == [t |-> "array", of |-> of]
JNull == [t |-> "null"]

-----------------------------------------------------------------------------
(* The templates.  The length given for a number is never looked at, as a  *)
(* number has no property length; 0 and {} stand for undefined.            *)
Item(required, type, enum, len, max, children) ==
    [required |-> required, fieldtype |-> type, fieldenum |-> enum,
     fieldlength |-> len, fieldMaxvalue |-> max, children |-> children]

Num(required, max)     == Item(required, "number", {}, 0, max, <<>>)
Bit                    == Item(FALSE, "number", {0, 1}, 0, 0, <<>>)
Obj(children)          == Item(TRUE, "object", {}, 0, 0, children)
Arr(required, children) == Item(required, "array", {}, 0, 0, children)
Type(name)             == Item(TRUE, "string", {name}, 0, 0, <<>>)

mmc == Obj([messageid |-> Num(TRUE, 0), versionid |-> Num(TRUE, 255),
            messageexpirytime |-> Num(TRUE, 0), messagegenerationtime |-> Num(FALSE, 0),
            selector_0_cancel |-> Bit])

lrc == Obj([locationid |-> Num(TRUE, 0), countrycode |-> Num(TRUE, 255),
            locationtablenumber |-> Num(TRUE, 99), extent |-> Num(FALSE, 255),
            extendedcountrycode |-> Num(FALSE, 255), locationtableversion |-> Num(FALSE, 0),
            selector_0_direction |-> Bit])

status == Obj([los |-> Num(FALSE, 9), averagespeed |-> Num(FALSE, 255), delay |-> Num(FALSE, 0)])

flowvectorsections ==
    Arr(TRUE, [spatialoffset |-> Num(TRUE, 0), status |-> status, spatialresolution |-> Num(FALSE, 9)])

tfpdata == Obj([starttime |-> Num(TRUE, 0), duration |-> Num(FALSE, 0),
                spatialresolution |-> Num(TRUE, 9),
                flowvectors |-> Item(TRUE, "array", {}, 1, 9,
                                     [timeoffset |-> Num(TRUE, 0),
                                      flowvectorsections |-> flowvectorsections])])

freeTexts == Arr(FALSE, [languagecode |-> Num(TRUE, 0),
                         freetext |-> Item(TRUE, "string", {}, 0, 0, <<>>)])

vehicleRestrictions == Arr(FALSE, [vehicletype |-> Num(TRUE, 0)])

causes == Arr(TRUE, [maincause |-> Num(TRUE, 255), warninglevel |-> Num(TRUE, 255),
                     subcause |-> Num(TRUE, 255), lengthaffected |-> Num(FALSE, 0),
                     lanerestrictiontype |-> Num(TRUE, 255), numberoflanes |-> Num(TRUE, 255),
                     freetexts |-> freeTexts])

advices == Arr(TRUE, [advicecode |-> Num(TRUE, 255), subadvicecode |-> Num(TRUE, 255),
                      freetexts |-> freeTexts, vehiclerestrictions |-> vehicleRestrictions])

tecdata == Obj([starttime |-> Num(FALSE, 0), stoptime |-> Num(FALSE, 0),
                lengthaffected |-> Num(FALSE, 0), averagespeedabsolute |-> Num(FALSE, 255),
                effectcode |-> Num(TRUE, 255), causes |-> causes, advices |-> advices,
                vehiclerestrictions |-> vehicleRestrictions])

validate_template_tfp == [type |-> Type("tfp"), value |-> Obj([mmc |-> mmc, lrc |-> lrc, tfpdata |-> tfpdata])]
validate_template_tec == [type |-> Type("tec"), value |-> Obj([mmc |-> mmc, lrc |-> lrc, tecdata |-> tecdata])]

-----------------------------------------------------------------------------
(* The check of the page.                                                  *)

validate_item_exclusive(v, item) ==
    /\ item.fieldtype = (IF v.t = "null" THEN "object" ELSE v.t)
    /\ item.fieldenum # {} => v.is \in item.fieldenum
    /\ item.fieldlength # 0 /\ v.t = "array" => Len(v.of) <= item.fieldlength
    /\ item.fieldMaxvalue # 0 /\ v.t = "number" => v.is < item.fieldMaxvalue

(* A value that is present; null is an object to typeof. *)
validate_item(v, item) ==
    /\ item.fieldtype = (IF v.t = "null" THEN "object" ELSE v.t)
    /\ item.fieldenum # {} => v.is \in item.fieldenum
    /\ item.fieldlength # 0 /\ v.t = "array" => Len(v.of) <= item.fieldlength
    /\ item.fieldMaxvalue # 0 /\ v.t = "number" => v.is <= item.fieldMaxvalue

(* The keys a value has, never those it lacks; of an array the verdict on  *)
(* the last element is the one that is returned.  The keys of an array or  *)
(* a string, its indices, are in no template.                              *)
RECURSIVE validate_auto(_, _)
validate_auto(v, template) ==
    CASE v.t = "object" ->
            \A key \in DOMAIN v.of :
                /\ key \in DOMAIN template
                /\ validate_item(v.of[key], template[key])
                /\ template[key].fieldtype = "array" /\ v.of[key].of # <<>> =>
                       validate_auto(Last(v.of[key].of), template[key].children)
                /\ template[key].fieldtype = "object" =>
                       validate_auto(v.of[key], template[key].children)
      [] v.t = "array" -> v.of = <<>>
      [] OTHER -> v.t # "string"

Field(v, key) == IF v.t = "object" /\ key \in DOMAIN v.of THEN v.of[key] ELSE JNull
Has(v, key, types) == Field(v, key).t \in types

(* One message of validate_msg: null has no property type, and throws. *)
validate_message(v) ==
    IF v.t = "null" THEN "thrown"
    ELSE IF validate_auto(v, IF Has(v, "type", {"string"}) /\ Field(v, "type").is = "tfp"
                             THEN validate_template_tfp
                             ELSE validate_template_tec)
         THEN "ok" ELSE "refused"

-----------------------------------------------------------------------------
(* What the service reads of a message; FALSE is a JSONException.          *)

Ints(v, keys) == \A key \in keys : Has(v, key, {"number"})
OptInts(v, keys) == \A key \in keys : Has(v, key, {"number", "null"})
Each(v, key, Reads(_)) == /\ Has(v, key, {"array"})
                          /\ \A i \in DOMAIN Field(v, key).of : LET e == Field(v, key).of[i]
                                                                IN e.t = "object" /\ Reads(e)
OptEach(v, key, Reads(_)) == Has(v, key, {"null"}) \/ Each(v, key, Reads)

createMMC(v) == /\ v.t = "object"
                /\ Ints(v, {"messageid", "versionid", "messageexpirytime"})
                /\ OptInts(v, {"selector_0_cancel", "messagegenerationtime"})

\* getString takes a number or a text
createLRC(v) == /\ v.t = "object"
                /\ Ints(v, {"locationid", "countrycode", "locationtablenumber"})
                /\ OptInts(v, {"extent", "extendedcountrycode", "selector_0_direction"})

createTFPData(v) ==
    LET Section(s) == /\ Ints(s, {"spatialoffset"}) /\ OptInts(s, {"spatialresolution"})
                      /\ Has(s, "status", {"object"})
                      /\ OptInts(Field(s, "status"), {"los", "averagespeed", "delay"})
        Vector(fv) == /\ Ints(fv, {"timeoffset"}) /\ OptInts(fv, {"spatialresolution"})
                      /\ Each(fv, "flowvectorsections", Section)
    IN /\ v.t = "object" /\ Ints(v, {"starttime", "spatialresolution"}) /\ OptInts(v, {"duration"})
       /\ Each(v, "flowvectors", Vector)

FreeText(x) == Ints(x, {"languagecode"}) /\ ~Has(x, "freetext", {"null"})
Vehicle(x)  == OptInts(x, {"vehicletype"})

createTECData(v) ==
    LET Cause(c)  == /\ Ints(c, {"maincause", "warninglevel"})
                     /\ OptInts(c, {"subcause", "lengthaffected", "lanerestrictiontype", "numberoflanes"})
                     /\ OptEach(c, "freetexts", FreeText)
        Advice(a) == /\ OptInts(a, {"advicecode", "subadvicecode"})
                     /\ OptEach(a, "freetexts", FreeText)
                     /\ OptEach(a, "vehiclerestrictions", Vehicle)
    IN /\ v.t = "object" /\ Ints(v, {"effectcode"})
       /\ OptInts(v, {"starttime", "stoptime", "lengthaffected", "averagespeedabsolute"})
       /\ Each(v, "causes", Cause) /\ OptEach(v, "advices", Advice)
       /\ OptEach(v, "vehiclerestrictions", Vehicle)

isTfp(v) == Has(v, "type", {"string"}) /\ Field(v, "type").is \in {"tfp", "TFP"}

(* One turn of the loop of CreateFileByJson.query *)
Creatable(v) ==
    LET value == Field(v, "value")
    IN /\ v.t = "object" /\ ~Has(v, "type", {"null"})
       /\ createMMC(Field(value, "mmc")) /\ createLRC(Field(value, "lrc"))
       /\ IF isTfp(v) THEN createTFPData(Field(value, "tfpdata"))
          ELSE createTECData(Field(value, "tecdata"))

-----------------------------------------------------------------------------
(* The meaning the templates suggest: every value is of its kind and in    *)
(* its range, every required one is there, every element of an array is    *)
(* looked at.                                                              *)
RECURSIVE Legal(_, _)
Legal(v, template) ==
    /\ v.t = "object"
    /\ \A key \in DOMAIN template : template[key].required => key \in DOMAIN v.of
    /\ \A key \in DOMAIN v.of :
          LET item == template[key]
              x    == v.of[key]
          IN /\ key \in DOMAIN template /\ x.t = item.fieldtype
             /\ item.fieldenum # {} => x.is \in item.fieldenum
             /\ item.fieldMaxvalue # 0 /\ x.t = "number" => x.is <= item.fieldMaxvalue
             /\ item.fieldlength # 0 => Len(x.of) <= item.fieldlength
             /\ x.t = "object" => Legal(x, item.children)
             /\ x.t = "array" => \A i \in DOMAIN x.of : Legal(x.of[i], item.children)

Complete(v) == Legal(v, validate_template_tfp) \/ Legal(v, validate_template_tec)
=============================================================================
