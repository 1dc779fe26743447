------------------------- MODULE MCMixpanelProvider -------------------------
(***************************************************************************)
(* Two calls of flag methods at a time: every call beside one of a few     *)
(* that contend with it for the executor, the loop or the definitions.     *)
(***************************************************************************)
EXTENDS MixpanelProvider

CONSTANTS c1, c2, f1, f2

Method(kind, where, async, report, id, wrapped) ==
  [kind |-> kind, where |-> where, async |-> async, report |-> report, id |-> id,
   flag |-> f1, wrapped |-> wrapped]

RemoteGets ==
  {Method("get", "remote", async, TRUE, id, FALSE) : async, id \in BOOLEAN}

MCMethods ==
  RemoteGets
  \cup {Method("get", "remote", async, FALSE, TRUE, FALSE) : async \in BOOLEAN}
  \cup {Method("all", "remote", async, FALSE, TRUE, FALSE) : async \in BOOLEAN}
  \cup {Method("report", "remote", async, TRUE, id, FALSE) : async, id \in BOOLEAN}
  \cup {Method("get", "local", FALSE, TRUE, id, FALSE) : id \in BOOLEAN}
  \cup {Method("all", "local", FALSE, FALSE, TRUE, FALSE),
        Method("report", "local", FALSE, TRUE, TRUE, FALSE),
        Method("get", "custom", FALSE, FALSE, TRUE, TRUE)}
  \cup {Method("get", where, FALSE, TRUE, TRUE, TRUE) : where \in {"local", "remote"}}

Contenders ==
  {Method("get", "remote", TRUE, TRUE, TRUE, FALSE),
   Method("get", "local", FALSE, TRUE, TRUE, TRUE)}

MCPrograms == {[c \in {c1, c2} |-> IF c = c1 THEN m1 ELSE m2] : m1 \in MCMethods, m2 \in Contenders}

Defs(a, b) == [f \in {f1, f2} |-> IF f = f1 THEN a ELSE b]

MCDefinitions ==
  {Defs("variant", "NO_ROLLOUT_MATCH"), Defs("MISSING_CONTEXT_KEY", "variant"), Defs("raised", "variant")}
=============================================================================
