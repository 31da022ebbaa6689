---------------------------- MODULE MCJsonStream ----------------------------
EXTENDS JsonStream
CONSTANTS m1, m2, t1, t2

MCCategory == [t \in CallIds |-> IF t = t1 THEN "edit" ELSE "exec"]

(* One update of the model together with its image capability, one of the  *)
(* model alone, one of the effort alone.                                   *)
MCUpdates ==
  { [f \in {"model", "image_input"} |-> "a"],
    [f \in {"model"} |-> "b"],
    [f \in {"effort"} |-> "a"] }
=============================================================================
