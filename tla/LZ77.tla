-------------------------------- MODULE LZ77 --------------------------------
(***************************************************************************)
(* What a RefPack stream means, whatever the way a decoder executes it: an *)
(* output that only grows, by a run of literal bytes or by a reference     *)
(* that repeats, byte after byte, what stands offset bytes earlier.  A     *)
(* reference longer than its offset repeats bytes it has itself produced.  *)
(***************************************************************************)
EXTENDS Integers

CONSTANTS Byte,   \* the values of an output byte
          Unset   \* the content of an output byte nothing was written to

VARIABLES total,  \* the size of the output
          out,    \* the output, [0..total-1 -> Byte \cup {Unset}]
          pos,    \* how many bytes of it are produced
          done    \* "running", or the verdict: "ok" or "corrupt"

vars == <<total, out, pos, done>>

Init == /\ total \in Nat
        /\ out = [i \in 0..total-1 |-> Unset]
        /\ pos = 0
        /\ done = "running"

\* The output grows by n bytes; what was produced stays as it is.
Grow(n) == /\ pos + n <= total
           /\ pos' = pos + n
           /\ DOMAIN out' = 0..total-1
           /\ \A i \in 0..total-1 : (i < pos \/ i >= pos + n) => out'[i] = out[i]
           /\ UNCHANGED <<total, done>>

Literal == \E n \in 1..total : /\ Grow(n)
                               /\ \A i \in pos..pos+n-1 : out'[i] \in Byte

Reference == \E n \in 1..total, offset \in 1..pos :
                /\ Grow(n)
                /\ \A i \in pos..pos+n-1 : out'[i] = out'[i - offset]

\* A stream is well formed only if it fills the output exactly.
Finish == /\ done' \in {"ok", "corrupt"}
          /\ done' = "ok" => pos = total
          /\ UNCHANGED <<total, out, pos>>

Next == /\ done = "running"
        /\ Literal \/ Reference \/ Finish

Spec == Init /\ [][Next]_vars
=============================================================================
