---------------------------- MODULE TokenService ----------------------------
(***************************************************************************)
(* What getLiveSession (ibkr/cache.go) promises whichever way the tokens   *)
(* are kept: a call ends with an error, or with a token that IBKR issued   *)
(* and that the call itself found fit to use; caches may share a token or  *)
(* forget it, and never make one, or make one last longer.                 *)
(*                                                                         *)
(* A token is known by the life it has left.                               *)
(***************************************************************************)
EXTENDS Integers

CONSTANTS
  Callers,      \* who ask for tokens
  RefreshSkew,  \* the life that a shared token has left at least
  Grantable     \* lives with which a new token is handed out

VARIABLES
  st,     \* "idle", "asking", "found" a token, "holding" one to use it
  tok,    \* life of the token found
  pool    \* lives of issued tokens that may still be shared

vars == <<st, tok, pool>>

Remaining(life) == IF life > 0 THEN life - 1 ELSE 0

Init ==
  /\ st = [p \in Callers |-> "idle"]
  /\ tok = [p \in Callers |-> 0]
  /\ pool = {}

Become(p, stage, life) ==
  /\ st' = [st EXCEPT ![p] = stage]
  /\ tok' = [tok EXCEPT ![p] = life]

\* A cache may forget tokens at any time.
Sharing(tokens) == pool' \in SUBSET tokens

Ask(p) == st[p] = "idle" /\ Become(p, "asking", 0) /\ Sharing(pool)

\* A new token, and one that somebody asked for before.
Issue(p) ==
  /\ st[p] = "asking"
  /\ \E life \in Grantable, stage \in {"found", "holding"} :
       Become(p, stage, life) /\ Sharing(pool \cup {life})

Share(p) ==
  /\ st[p] = "asking"
  /\ \E life \in pool, stage \in {"found", "holding"} :
       life > RefreshSkew /\ Become(p, stage, life)
  /\ Sharing(pool)

Deliver(p) == st[p] = "found" /\ Become(p, "holding", tok[p]) /\ Sharing(pool)

\* The token is used, or the call fails, at any point.
Return(p) == st[p] # "idle" /\ Become(p, "idle", 0) /\ Sharing(pool)

Forget == Sharing(pool) /\ UNCHANGED <<st, tok>>

Elapse ==
  /\ tok' = [p \in Callers |-> Remaining(tok[p])]
  /\ Sharing({Remaining(life) : life \in pool})
  /\ UNCHANGED st

Next ==
  \/ \E p \in Callers : Ask(p) \/ Issue(p) \/ Share(p) \/ Deliver(p) \/ Return(p)
  \/ Forget
  \/ Elapse

Spec == Init /\ [][Next]_vars

=============================================================================
