------------------------------ MODULE MCDrift ------------------------------
(***************************************************************************)
(* Drift detection over a control-plane node and a worker, with a node     *)
(* control, a control-plane control and a plain predicate.                 *)
(***************************************************************************)
EXTENDS Drift, TLC

MCScopeOf == ("anonymous" :> "node") @@ ("ciphers" :> "controlplane")

(* The baseline writes one setting as a boolean, the other as a list. *)
MCDesired ==
    ("anonymous" :> Scalar(<<Plain(1)>>))
    @@ ("ciphers" :> List(<<<<Plain(2)>>, <<Plain(1)>>>>))

(* Compliant evidence in other spellings; evidence of a weakened control;  *)
(* a list with a comma in an item.  Each document names one control: two   *)
(* under way at once are also an ingest of two controls.                   *)
MCEvidence ==
    {("anonymous" :> Scalar(<<Noisy(1)>>)),
     ("ciphers" :> Scalar(<<Noisy(1), Plain(2)>>)),
     ("anonymous" :> Scalar(<<Plain(2)>>)),
     ("ciphers" :> List(<<<<Noisy(1)>>, <<Plain(2)>>>>)),
     ("ciphers" :> List(<<<<Plain(2), Plain(1)>>>>))}

MCWritable == {<<"cp", "ciphers">>, <<"cp", "users">>}

MCBlessed == {<<Plain(1)>>, <<Plain(2)>>}
=============================================================================
