------------------------------ MODULE Register ------------------------------
(* What Storage promises its callers (packages/cache/src/storage.ts): a key *)
(* holds one whole value at every moment, a put or a delete takes effect at *)
(* one moment of its call or not at all, a call that has returned has taken *)
(* effect and one that was refused never will, and a list names the keys   *)
(* that hold a value and nothing else.                                     *)
CONSTANTS Clients, Keys, Values, Absent

VARIABLES
  value,   \* what each key holds
  names,   \* what a list would answer
  call     \* what each client has asked, and whether it has taken effect

register == <<value, names, call>>

Idle == [at |-> "idle"]

Holding(v) == {k \in Keys : v[k] # Absent}

RegisterInit ==
  /\ value = [k \in Keys |-> Absent]
  /\ names = {}
  /\ call = [c \in Clients |-> Idle]

(* A delete puts Absent.                                                   *)
Ask(c, k, body) ==
  /\ call[c] = Idle
  /\ call' = [call EXCEPT ![c] = [at |-> "asked", key |-> k, body |-> body]]
  /\ UNCHANGED <<value, names>>

TakeEffect(c) ==
  /\ call[c].at = "asked"
  /\ value' = [value EXCEPT ![call[c].key] = call[c].body]
  /\ names' = Holding(value')
  /\ call' = [call EXCEPT ![c] = [at |-> "took"]]

Return(c) ==
  /\ call[c].at = "took"
  /\ call' = [call EXCEPT ![c] = Idle]
  /\ UNCHANGED <<value, names>>

Refuse(c) ==
  /\ call[c].at = "asked"
  /\ call' = [call EXCEPT ![c] = Idle]
  /\ UNCHANGED <<value, names>>

(* A client killed has asked for what took effect, or for what never will. *)
RegisterNext ==
  \E c \in Clients :
    \/ \E k \in Keys, body \in Values \union {Absent} : Ask(c, k, body)
    \/ TakeEffect(c) \/ Return(c) \/ Refuse(c)

RegisterSpec == RegisterInit /\ [][RegisterNext]_register
=============================================================================
