----------------------------- MODULE FixedWindow -----------------------------
(***************************************************************************)
(* What a fixed-window limiter promises each key, with nothing to clean    *)
(* up: a window opens with the first request, lasts Window and admits Max  *)
(* requests; when it has passed, it is as if it had never been.            *)
(***************************************************************************)
EXTENDS Integers

CONSTANTS Keys, Window, Max, Closed

VARIABLES now, open, answer

fwVars == <<now, open, answer>>

\* The window of a key as the next request will find it.
FWInit ==
  /\ now \in Nat
  /\ open = [k \in Keys |-> Closed]
  /\ answer = Closed

\* Time passes and closes windows.
Pass ==
  /\ now' > now
  /\ open' = [k \in Keys |->
       IF open[k] # Closed /\ open[k].resetAt > now' THEN open[k] ELSE Closed]
  /\ answer' = Closed

\* A request is counted, refused or not, and never moves the end of its window.
Request(k) ==
  LET w == IF open[k] = Closed THEN [count |-> 1, resetAt |-> now + Window]
                               ELSE [open[k] EXCEPT !.count = @ + 1]
  IN /\ open' = [open EXCEPT ![k] = w]
     /\ answer' = [key |-> k, allowed |-> w.count <= Max]
     /\ now' = now

FWNext == Pass \/ \E k \in Keys : Request(k)

FWSpec == FWInit /\ [][FWNext]_fwVars
==============================================================================
