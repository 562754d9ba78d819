------------------------------ MODULE PassBuffers ------------------------------
(***************************************************************************)
(* The input buffers every pass of a decode session binds                  *)
(* (refresh_buffers in crates/hologram-ai/src/decode.rs).  They are        *)
(* allocated once and refreshed in place: the attention mask only flips    *)
(* the columns between the last position and the new one, and the rotary   *)
(* frequency law is recomputed only for laws that depend on the length.    *)
(***************************************************************************)
EXTENDS Integers, FiniteSets

CONSTANTS Buckets,      \* rungs of the window ladder
          Chunks,       \* widths of the session's runners (1: the step runner)
          Scaling,      \* the rotary law's kind
          OriginalLen   \* original_max_position_embeddings

ASSUME BufferAssumption ==
  /\ Buckets \subseteq Nat \ {0} /\ Chunks \subseteq Nat \ {0}
  /\ Scaling \in {"fixed", "dynamic", "longrope"}
  /\ OriginalLen \in Nat

VARIABLES cur_len,   \* realized positions
          bucket,    \* rows of the carried cache
          mask,      \* mask_key, mask_pos and the columns each row leaves visible
          ropeAt,    \* rope_valid_for, 0 for None
          fed        \* the pass the buffers were last refreshed for

vars == <<cur_len, bucket, mask, ropeAt, fed>>

Min2(a, b) == IF a <= b THEN a ELSE b
Max2(a, b) == IF a <= b THEN b ELSE a

NoMask == [span |-> 0, chunk |-> 0, pos |-> 0, visible |-> [i \in {} |-> {}]]
NoPass == [pos |-> 0, chunk |-> 0, real |-> 0, law |-> 0]

-----------------------------------------------------------------------------
(* The mask: row i of a pass sees the realized columns and, among the new  *)
(* ones, those up to its own.                                              *)

BuiltMask(chunk) ==
  [i \in 0 .. chunk - 1 |->
     {col \in 0 .. bucket + chunk - 1 : IF col < bucket THEN col < cur_len ELSE col - bucket <= i}]

\* Fault: columns are only ever made visible.
FlippedForward ==
  [i \in DOMAIN mask.visible |-> mask.visible[i] \cup (mask.pos .. cur_len - 1)]

FlippedMask ==
  LET moved == Min2(mask.pos, cur_len) .. Max2(mask.pos, cur_len) - 1
  IN [i \in DOMAIN mask.visible |->
        IF cur_len > mask.pos THEN mask.visible[i] \cup moved ELSE mask.visible[i] \ moved]

RefreshedMask(chunk) ==
  LET same == mask.span = bucket + chunk /\ mask.chunk = chunk
  IN [span |-> bucket + chunk,
      chunk |-> chunk,
      pos |-> cur_len,
      visible |-> IF same THEN FlippedMask ELSE BuiltMask(chunk)]

-----------------------------------------------------------------------------
(* The rotary law (hologram-ai-common rope.rs): which frequency set a      *)
(* forward of a given total length uses.                                   *)

length_dependent == Scaling \in {"dynamic", "longrope"}

inv_freqs(len) == CASE Scaling = "fixed" -> 0
                    [] Scaling = "dynamic" -> Max2(len, OriginalLen)
                    [] Scaling = "longrope" -> IF len > OriginalLen THEN 1 ELSE 0

\* Fault: the law is computed once.
RopeKept(chunk) == ropeAt = 0

RopeStale(chunk) == ropeAt = 0 \/ (length_dependent /\ ropeAt # cur_len + chunk)

RefreshedRope(chunk) == IF RopeStale(chunk) THEN cur_len + chunk ELSE ropeAt

-----------------------------------------------------------------------------

\* Fault: the bucket's end is not checked.
RefreshUnchecked(chunk, real) ==
  /\ real \in 1 .. chunk
  /\ cur_len <= bucket
  /\ mask' = RefreshedMask(chunk)
  /\ ropeAt' = RefreshedRope(chunk)
  /\ fed' = [pos |-> cur_len, chunk |-> chunk, real |-> real,
             law |-> inv_freqs(RefreshedRope(chunk))]

\* The rows a write would add must lie inside the bucket.
Refresh(chunk, real) ==
  /\ real \in 1 .. chunk
  /\ cur_len + real <= bucket
  /\ mask' = RefreshedMask(chunk)
  /\ ropeAt' = RefreshedRope(chunk)
  /\ fed' = [pos |-> cur_len, chunk |-> chunk, real |-> real,
             law |-> inv_freqs(RefreshedRope(chunk))]

\* A pass realizes its batch, or the accepted part of it; a trial pass and a
\* failed one realize nothing.
Pass(chunk, real, commit) == /\ Refresh(chunk, real)
                             /\ cur_len' = cur_len + commit
                             /\ UNCHANGED bucket

\* rewind_to
Rewind(len) == /\ cur_len' = len
               /\ UNCHANGED <<bucket, mask, ropeAt, fed>>

\* grow: the buffers are left as they are.
Grow(wide) == /\ wide > bucket
              /\ bucket' = wide
              /\ UNCHANGED <<cur_len, mask, ropeAt, fed>>

Init == /\ cur_len = 0
        /\ bucket \in Buckets
        /\ mask = NoMask
        /\ ropeAt = 0
        /\ fed = NoPass

Next == \/ \E chunk \in Chunks : \E real \in 1 .. chunk : \E commit \in 0 .. real :
             Pass(chunk, real, commit)
        \/ \E len \in 0 .. cur_len - 1 : Rewind(len)
        \/ \E wide \in Buckets : Grow(wide)

Spec == Init /\ [][Next]_vars

-----------------------------------------------------------------------------
(* Properties.                                                             *)

TypeOK == /\ bucket \in Buckets
          /\ cur_len \in 0 .. bucket
          /\ mask.span \in Nat /\ mask.chunk \in Nat /\ mask.pos \in Nat
          /\ \A i \in DOMAIN mask.visible : mask.visible[i] \subseteq Nat
          /\ ropeAt \in Nat
          /\ fed \in [pos : Nat, chunk : Nat, real : Nat, law : Nat]

\* Whatever passes, rewinds and regrows came before, the mask kept in place
\* is the one a pass at its position would build from scratch: exactly the
\* realized columns, and causality inside the chunk (refresh_buffers).
MaskExact ==
  mask.span > 0 =>
    LET rows == mask.span - mask.chunk
    IN mask.visible =
         [i \in 0 .. mask.chunk - 1 |-> (0 .. mask.pos - 1) \cup (rows .. rows + i)]

\* The cached frequency law a pass was fed is the law of that pass's own
\* length, never of an earlier pass's (rope_valid_for in refresh_buffers).
RopeNotStale == fed.chunk > 0 => fed.law = inv_freqs(fed.pos + fed.chunk)

\* "The rope rows carry the spec's complete frequency law at the realized
\* length" (the comment of refresh_buffers; rope.rs says a plan that can
\* only do it at a padded length must refuse).
RopeAtRealizedLength == fed.chunk > 0 => fed.law = inv_freqs(fed.pos + fed.real)
===============================================================================
