-------------------------- MODULE MCEconInterface --------------------------
(***************************************************************************)
(* Two channels of one map entry with two parameters and one register      *)
(* without parameters.  The configurations: a channel by value with one    *)
(* parameter of the other, beyond its mask; a value too wide with a plain  *)
(* register and two parameters, one beyond its mask; and none at all.      *)
(***************************************************************************)
EXTENDS EconInterface, TLC

CONSTANTS ch0, ch1, plain, p, q, rest

MCParamsOf == [r \in Register |-> IF r = plain THEN {} ELSE {p, q}]
MCModulus  == p :> 2 @@ q :> 3

W(vp, vq, vr) == p :> vp @@ q :> vq @@ rest :> vr

MCDefaultVal == [r \in Register |-> IF r = plain THEN W(0, 0, 2) ELSE W(0, 2, 1)]
MCResetVal   == [r \in Register |-> W(0, 0, 0)]

Cfg(val, par) == [ val |-> [r \in Register |-> (val @@ Nothing)[r]],
                   par |-> [r \in Register |-> (par @@ NoConfig.par)[r]] ]

MCConfigs == {
    Cfg(ch1 :> W(1, 1, 1), ch0 :> (p :> 3 @@ q :> Absent)),
    Cfg(ch0 :> TooWide @@ plain :> W(0, 0, 3), ch1 :> (p :> 3 @@ q :> 0)),
    NoConfig }
=============================================================================
