------------------------------ MODULE PromptLookup ------------------------------
(***************************************************************************)
(* Drafting by prompt lookup (prompt_lookup_draft and z_function in        *)
(* crates/hologram-ai/src/speculative.rs): the Z-function of the reversed  *)
(* sequence, built with the two-pointer window [l, r), and the draft read  *)
(* off it.  Sequences of the program are indexed from 0.                   *)
(***************************************************************************)
EXTENDS Integers, Sequences

CONSTANTS Token,      \* the vocabulary
          MaxLength,  \* bound: tokens of the sequence
          MaxDraft    \* tokens asked for

ASSUME LookupAssumption == MaxLength \in Nat /\ MaxDraft \in Nat

VARIABLES seq,       \* the realized sequence
          z,         \* the Z-function, as far as it is built
          i,         \* the position the outer loop is at
          l, r,      \* the rightmost match found: rev[l .. r-1] = rev[0 .. r-l-1]
          compared,  \* comparisons made so far
          at,        \* "copy": enter position i, "extend": its inner loop, "drafted"
          draft

lookup_vars == <<seq, z, i, l, r, compared, at, draft>>

n == Len(seq)
Least(a, b) == IF a <= b THEN a ELSE b

\* rev[k]: the sequence read backwards.
rev(k) == seq[n - k]

-----------------------------------------------------------------------------
(* z_function over the reversed sequence.                                  *)

\* Faults: the mirrored entry is not clipped to the window; it is not used.
CopyUnclipped == /\ at = "copy" /\ i < n
                 /\ z' = [z EXCEPT ![i] = IF i < r THEN z[i - l] ELSE 0]
                 /\ at' = "extend"
                 /\ UNCHANGED <<seq, i, l, r, compared, draft>>

\* A position inside the window starts from its mirror, the others from 0.
Copy == /\ at = "copy" /\ i < n
        /\ z' = [z EXCEPT ![i] = IF i < r THEN Least(r - i, z[i - l]) ELSE 0]
        /\ at' = "extend"
        /\ UNCHANGED <<seq, i, l, r, compared, draft>>

Matches == i + z[i] < n /\ rev(z[i]) = rev(i + z[i])

Extend == /\ at = "extend" /\ Matches
          /\ z' = [z EXCEPT ![i] = @ + 1]
          /\ compared' = compared + 1
          /\ UNCHANGED <<seq, i, l, r, at, draft>>

Close == /\ at = "extend" /\ ~Matches
         /\ IF i + z[i] > r THEN l' = i /\ r' = i + z[i] ELSE UNCHANGED <<l, r>>
         /\ i' = i + 1
         /\ compared' = compared + (IF i + z[i] < n THEN 1 ELSE 0)
         /\ at' = "copy"
         /\ UNCHANGED <<seq, z, draft>>

-----------------------------------------------------------------------------
(* prompt_lookup_draft: scanning up, only a strictly longer match replaces *)
(* the best one.                                                           *)

\* Fault: an equally long match replaces the best one.
BestOldest == CHOOSE k \in 1 .. n - 1 : /\ \A j \in 1 .. n - 1 : z[j] <= z[k]
                                        /\ \A j \in k + 1 .. n - 1 : z[j] < z[k]

Best == CHOOSE k \in 1 .. n - 1 : /\ \A j \in 1 .. n - 1 : z[j] <= z[k]
                                  /\ \A j \in 1 .. k - 1 : z[j] < z[k]

Drafted(end) == SubSeq(seq, end + 1, end + Least(MaxDraft, n - end))

Scan == /\ at = "copy" /\ i = n
        /\ draft' = IF z[Best] = 0 THEN <<>> ELSE Drafted(n - Best)
        /\ at' = "drafted"
        /\ UNCHANGED <<seq, z, i, l, r, compared>>

\* From one of these sequences.
LookupInit(among) ==
  /\ seq \in among
  /\ i = 1 /\ l = 0 /\ r = 0 /\ compared = 0
  /\ z = [k \in 0 .. n - 1 |-> IF k = 0 THEN n ELSE 0]
  /\ at = IF n < 2 \/ MaxDraft = 0 THEN "drafted" ELSE "copy"
  /\ draft = <<>>

Prompts == UNION {[1 .. k -> Token] : k \in 0 .. MaxLength}

LookupNext == Copy \/ Extend \/ Close \/ Scan

LookupSpec == LookupInit(Prompts) /\ [][LookupNext]_lookup_vars

-----------------------------------------------------------------------------
(* Properties.                                                             *)

Prefixed(k, m) == \A j \in 0 .. m - 1 : rev(j) = rev(k + j)

\* Every finished entry is the longest common prefix of the reversed
\* sequence and its tail ("z[i] = length of the longest common prefix of s
\* and s[i..]"), also where it was copied from the window, and "found in O(n)
\* time": a comparison either moves the window's right edge or ends a position.
ZExact == /\ compared <= 2 * n
          /\ \A k \in 1 .. i - 1 : /\ k + z[k] <= n
                                   /\ Prefixed(k, z[k])
                                   /\ k + z[k] < n => rev(z[k]) # rev(k + z[k])

\* With an exact table, the tokens the doc comment asks for: those that followed the most recent
\* earlier occurrence of the longest suffix that occurs earlier at all.
Recurs(m, end) == m <= end /\ end < n /\ \A j \in 0 .. m - 1 : seq[end - j] = seq[n - j]
Longest == CHOOSE m \in 0 .. n - 1 :
             /\ m = 0 \/ \E end \in 1 .. n - 1 : Recurs(m, end)
             /\ \A more \in m + 1 .. n - 1 : ~\E end \in 1 .. n - 1 : Recurs(more, end)
Latest == CHOOSE end \in 1 .. n - 1 :
            Recurs(Longest, end) /\ \A later \in end + 1 .. n - 1 : ~Recurs(Longest, later)

DraftRight ==
  /\ ZExact
  /\ at = "drafted" =>
       draft = IF n < 2 \/ MaxDraft = 0 \/ Longest = 0 THEN <<>> ELSE Drafted(Latest)
===============================================================================
