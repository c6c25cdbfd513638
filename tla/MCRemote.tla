------------------------------ MODULE MCRemote ------------------------------
(* A workspace that publishes, and one whose two workers may need one blob.   *)
EXTENDS Remote

MCActionsOf == "here" :> {"wide"} @@ "there" :> {"wide", "narrow"}
MCOutputs == "wide" :> {"o1", "o2"} @@ "narrow" :> {"n"}
MCCheckout == [src |-> 1, hdr |-> 0]
\* A directory keeps the first entry and the first blob of a name, so an older one matters.
MCEarlier == "directory" :> {[src |-> 1, hdr |-> 1]} @@ "reapi" :> {}
\* o2 depends on the source alone.
MCMakes(action, output, inputs) ==
  IF output = "o2" THEN <<"of", inputs["src"]>>
  ELSE <<"of", inputs["src"], IF "hdr" \in DOMAIN inputs THEN inputs["hdr"] ELSE 0>>
=============================================================================
