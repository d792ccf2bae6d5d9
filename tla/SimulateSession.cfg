\* Two visits, two sessions and two messages, answered in any order.
\* The user may stop, and a page that failed to load leaves nothing to click.
SPECIFICATION Spec
CONSTANTS
    Services = {"daimler", "mib2", "renault", "bmw"}
    Lps = {"13_q2_k", "14_q2_g"}
    DefaultLp = "14_q2_g"
    MaxVisits = 2
    MaxInits = 2
    MaxGets = 2
    None = None
INVARIANTS
    SessionIsOwn
    RequestsMatchSession
    NeverLockedOut
CHECK_DEADLOCK FALSE
