------------------------- MODULE MCCreateFromFiles -------------------------
EXTENDS CreateFromFiles, FileTemplate

One == JNum(1)
MCmmc == JObj([messageid |-> One, versionid |-> One, messageexpirytime |-> One,
               messagegenerationtime |-> One, selector_0_cancel |-> One])
MClrc == JObj([locationid |-> One, countrycode |-> One, locationtablenumber |-> One, extent |-> One,
               extendedcountrycode |-> One, locationtableversion |-> One, selector_0_direction |-> One])
Section == JObj([spatialoffset |-> One, spatialresolution |-> One,
                 status |-> JObj([los |-> One, averagespeed |-> One, delay |-> One])])
Vector  == JObj([timeoffset |-> One, flowvectorsections |-> JArr(<<Section>>)])
TfpData == JObj([starttime |-> One, duration |-> One, spatialresolution |-> One,
                 flowvectors |-> JArr(<<Vector>>)])
Texts    == JArr(<<JObj([languagecode |-> One, freetext |-> JStr("text")])>>)
Vehicles == JArr(<<JObj([vehicletype |-> One])>>)
ACause  == JObj([maincause |-> One, warninglevel |-> One, subcause |-> One, lengthaffected |-> One,
                 lanerestrictiontype |-> One, numberoflanes |-> One, freetexts |-> Texts])
AnAdvice == JObj([advicecode |-> One, subadvicecode |-> One, freetexts |-> Texts,
                  vehiclerestrictions |-> Vehicles])
TecData == JObj([starttime |-> One, stoptime |-> One, lengthaffected |-> One,
                 averagespeedabsolute |-> One, effectcode |-> One, causes |-> JArr(<<ACause>>),
                 advices |-> JArr(<<AnAdvice>>), vehiclerestrictions |-> Vehicles])
Tfp == JObj([type |-> JStr("tfp"), value |-> JObj([mmc |-> MCmmc, lrc |-> MClrc, tfpdata |-> TfpData])])
Tec == JObj([type |-> JStr("tec"), value |-> JObj([mmc |-> MCmmc, lrc |-> MClrc, tecdata |-> TecData])])

With(v, key, x) == JObj([v.of EXCEPT ![key] = x])

\* Every message that one edit makes of a complete one: a field removed,
\* null, unknown or at a bound, an array emptied, or a faulty element put
\* alone or before a good one.
RECURSIVE EditsOf(_, _)
EditsOf(v, template) ==
    LET Under(key) ==
            LET x == v.of[key]
                item == template[key]
                deep == IF x.t = "object" THEN EditsOf(x, item.children)
                        ELSE IF x.t = "array" THEN EditsOf(x.of[1], item.children) ELSE <<>>
                Put(y) == With(v, key, y)
            IN <<JObj([k \in DOMAIN v.of \ {key} |-> v.of[k]]), Put(JNull)>>
               \o (CASE x.t = "number" -> IF item.fieldMaxvalue = 0 THEN <<>>
                                          ELSE <<Put(JNum(item.fieldMaxvalue)), Put(JNum(item.fieldMaxvalue + 1))>>
                     [] x.t = "object" -> [i \in DOMAIN deep |-> Put(deep[i])]
                     [] x.t = "array"  -> <<Put(JArr(<<>>)), Put(JArr(x.of \o x.of))>>
                                          \o [i \in DOMAIN deep |-> Put(JArr(<<deep[i]>>))]
                                          \o [i \in DOMAIN deep |-> Put(JArr(<<deep[i]>> \o x.of))]
                     [] OTHER -> <<Put(One)>>)
        unknown == JObj([k \in DOMAIN v.of \union {"unknown"} |-> IF k = "unknown" THEN One ELSE v.of[k]])
    IN FoldSet(LAMBDA key, edits : edits \o Under(key), <<unknown>>, DOMAIN v.of)

MCValues == <<Tfp, Tec, With(Tfp, "value", JNull)>>
            \o EditsOf(Tfp, validate_template_tfp) \o EditsOf(Tec, validate_template_tec)
            \o <<JNull, JNum(7), JStr("text"), JObj([type |-> JStr("TFP"), value |-> Tfp.of.value])>>

MCMessages   == DOMAIN MCValues
MCChecked    == [m \in MCMessages |-> validate_message(MCValues[m])]
MCCanCreate  == [m \in MCMessages |-> Creatable(MCValues[m])]
MCIsComplete == [m \in MCMessages |-> Complete(MCValues[m])]

\* File n is message n alone; with the others reads and requests meet.
Good == 0
Cut == -1
Refused == -2
Malformed == -3
MCContent == [f \in MCMessages \union Malformed..Good |->
    CASE f = Good      -> [kind |-> "array", messages |-> <<1, 2>>]
      [] f = Cut       -> [kind |-> "array", messages |-> <<2, 3, 1>>]
      [] f = Refused   -> [kind |-> "other", messages |-> <<1>>]
      [] f = Malformed -> [kind |-> "malformed", messages |-> <<>>]
      [] OTHER         -> [kind |-> "array", messages |-> <<f>>]]
MCLibraries == {{f} : f \in MCMessages} \union {{Good, Cut}, {Good, Refused}, {Good, Malformed}}
MCTries == [l \in MCLibraries |-> IF l = {Good, Cut} THEN 2 ELSE 1]
=============================================================================
