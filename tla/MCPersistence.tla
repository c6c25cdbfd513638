--------------------------- MODULE MCPersistence ---------------------------
(* What .frost keeps, for TLC: the journal of two actions, and a content store *)
(* with two versions of one large output, of one chunk each.  Neither reads    *)
(* what the other writes, so one of them is looked at at a time.               *)
EXTENDS Journal, Store, TLC

CONSTANTS a1, a2, c1, c2, v1, v2, x, y

VARIABLE kept           \* "journal" or "store"

MCIds == {a1, a2}
MCClients == {c1, c2}
MCBlobs == {v1, v2}
MCLayout == (v1 :> <<x>>) @@ (v2 :> <<y>>)
MCBig == {v1, v2}

PersistenceInit ==
  /\ kept \in {"journal", "store"} /\ Init /\ StoreInit
  /\ kept = "store" => current = a1

PersistenceNext ==
  \/ kept = "journal" /\ Next /\ UNCHANGED <<kept, storeVars>>
  \/ kept = "store" /\ StoreNext /\ UNCHANGED <<kept, vars>>

PersistenceSpec ==
  /\ PersistenceInit /\ [][PersistenceNext]_<<kept, vars, storeVars>>
  /\ \A p \in Clients : WF_storeVars(kept = "store" /\ Step(p))
=============================================================================
