------------------------------- MODULE KvMap -------------------------------
(***************************************************************************)
(* What a key-value database promises its caller, power failures included: *)
(* a call changes the value of its own key to its own value and nothing    *)
(* else, a call that reports success has made its change, and a call that  *)
(* the power failed in has made its change or has made none.               *)
(***************************************************************************)
CONSTANTS Key, Value,
    NoValue,    \* the key is not there
    DefaultKey, DefaultValue

VARIABLES
    map,        \* the value of each key
    req,        \* the call in progress: its key and the value it sets, or NoReq
    res         \* how the last call ended

NoReq == <<>>

kvvars == <<map, req, res>>

KvInit ==
    /\ map = [k \in Key |-> NoValue]
    /\ req = NoReq
    /\ res = "none"

\* A call: set to v, or delete when v is NoValue.
Begin(k, v) ==
    /\ req = NoReq
    /\ req' = <<k, v>>
    /\ UNCHANGED <<map, res>>

\* The moment the change is made.
Apply ==
    /\ req # NoReq
    /\ map' = [map EXCEPT ![req[1]] = req[2]]
    /\ UNCHANGED <<req, res>>

\* The call returns; success is only reported of a change that was made.
End(r) ==
    /\ req # NoReq
    /\ r = "ok" => map[req[1]] = req[2]
    /\ req' = NoReq
    /\ res' = r
    /\ UNCHANGED map

\* The power fails: the caller never hears of its call again.
Crash ==
    /\ req' = NoReq
    /\ res' = "none"
    /\ UNCHANGED map

\* The first start with an empty flash creates the default values.
Default(k, v) ==
    /\ map = [x \in Key |-> NoValue]
    /\ req = NoReq
    /\ map' = [map EXCEPT ![k] = v]
    /\ UNCHANGED <<req, res>>

KvNext ==
    \/ \E k \in Key, v \in Value \cup {NoValue} : Begin(k, v)
    \/ Apply
    \/ \E r \in {"ok", "full", "name_err"} : End(r)
    \/ Crash
    \/ Default(DefaultKey, DefaultValue)

KvSpec == KvInit /\ [][KvNext]_kvvars

=============================================================================
