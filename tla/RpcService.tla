----------------------------- MODULE RpcService -----------------------------
(***************************************************************************)
(* What a caller of RPCClient::call may rely on: one call at a time, each  *)
(* method executed at most once per call, and a result that tells what     *)
(* happened.  RPC_FAIL says nothing about the method having been executed. *)
(***************************************************************************)
EXTENDS Naturals, Sequences

CONSTANTS Calls,        \* the calls a client makes
          Kinds         \* what calls of a registered, unregistered ... method are

VARIABLES kind,         \* kind[k]: what call k asks for; "none" before it is made
          executed,     \* the calls whose method has been executed, in order
          result        \* result[k]: the code call k returned; "none" before that

serviceVars == <<kind, executed, result>>

(* The code that a call of each kind returns when nothing fails.           *)
CodeOf(q) ==
    CASE q = "value"    -> "RPC_SUCCESS"
      [] q = "nomatch"  -> "RPC_NO_MATCH"
      [] q = "mistyped" -> "RPC_NO_MATCH"
      [] q = "nomethod" -> "RPC_NO_METHOD"
      [] OTHER          -> "RPC_FAIL"

(* The kinds of call that execute a method.                                *)
Executing == {"value", "mistyped", "throws"}

WasExecuted(k) == \E i \in 1 .. Len(executed) : executed[i] = k

Pending(k) == kind[k] # "none" /\ result[k] = "none"

Init ==
    /\ kind = [k \in Calls |-> "none"]
    /\ executed = <<>>
    /\ result = [k \in Calls |-> "none"]

Invoke(k, q) ==
    /\ kind[k] = "none"
    /\ \A j \in Calls : ~Pending(j)
    /\ kind' = [kind EXCEPT ![k] = q]
    /\ UNCHANGED <<executed, result>>

Execute(k) ==
    /\ kind[k] \in Executing
    /\ ~WasExecuted(k)
    /\ executed' = Append(executed, k)
    /\ UNCHANGED <<kind, result>>

(* A call returns what happened, or that it failed; one made without a     *)
(* connection returns at once.                                             *)
Return(k) ==
    /\ Pending(k)
    /\ \E code \in {CodeOf(kind[k]), "RPC_FAIL"} :
         /\ code = "RPC_SUCCESS" => WasExecuted(k)
         /\ result' = [result EXCEPT ![k] = code]
    /\ UNCHANGED <<kind, executed>>

Refuse(k, q) ==
    /\ kind[k] = "none"
    /\ \A j \in Calls : ~Pending(j)
    /\ kind' = [kind EXCEPT ![k] = q]
    /\ result' = [result EXCEPT ![k] = "RPC_CLOSED"]
    /\ UNCHANGED executed

Next ==
    \E k \in Calls :
        \/ \E q \in Kinds : Invoke(k, q) \/ Refuse(k, q)
        \/ Execute(k)
        \/ Return(k)

Spec == Init /\ [][Next]_serviceVars

=============================================================================
