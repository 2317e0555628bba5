------------------------------- MODULE KiviCache -------------------------------
(***************************************************************************)
(* The KIVI KV cache of one session.  New K/V rows go to an fp32 residual    *)
(* ring; whenever R of them are there they are packed into a 2-bit group,    *)
(* for good, and the later rows move to the front of the ring.  A verify     *)
(* burst appends without draining so that it can still be rolled back, and   *)
(* the rows of a pinned prefix that fill no group are copied out, because a  *)
(* later drain moves other rows over them.  Sources: kivi_drain_one_layer    *)
(* (forward/attention.c), transformer_kivi_* and the session calls of        *)
(* forward/step.c, verify_forward and kv_truncate (arch_ops.c).              *)
(*                                                                           *)
(* Every layer writes, drains and copies the same rows under the same        *)
(* counters, one layer after the other, and a layer whose buffers cannot be  *)
(* mapped ends a drain or a copy where it stands.  A row is the token of its *)
(* position.  A decode step runs its forward here at once (Session has the   *)
(* deferral, and the forwards that fail).                                    *)
(***************************************************************************)
EXTENDS Integers, Sequences

CONSTANTS Tokens,     \* the vocabulary
          NoRow,      \* a row of the ring, or a packed row, never written
          R,          \* KIVI_K_GROUP_SIZE
          MMax,       \* m_max: rows of one forward pass
          Contexts,   \* max_seq_len of the sessions
          SpecMax,    \* GEIST_SPEC_KMAX_HARDCAP: drafts of one verify
          NLayers,    \* n_layers, those with a ring
          MaxPrompt,  \* bound: tokens of one prefill or pin_prefix
          MaxFaults,  \* bound, by context: buffers that cannot be mapped
          MayCancel   \* does another thread call geist_session_cancel

ASSUME KiviConstants ==
    /\ R \in Nat \ {0} /\ MMax \in Nat \ {0} /\ Contexts \subseteq Nat /\ SpecMax \in Nat
    /\ NLayers \in Nat \ {0}
    /\ MaxPrompt \in Nat /\ MaxFaults \in [Contexts -> Nat] /\ MayCancel \in BOOLEAN
    /\ NoRow \notin Tokens

VARIABLES maxLen,    \* max_seq_len
          text,      \* the tokens whose rows the cache should hold; Len is kv_len
          prefix,    \* prefix_length
          drained,   \* kivi_drained_count
          residual,  \* kivi_residual_count
          ring,      \* k_residual, v_residual of each layer
          packed,    \* k_kivi_q, v_kivi_q of each layer
          tail,      \* kivi_pin_tail of each layer; its length is kivi_pin_rows
          ready,     \* logits_valid
          todo,      \* the running prefill: ids still to go, and whether it pins
          faults,    \* buffers that could not be mapped so far
          failed     \* one of them since the session was last empty

cacheVars == <<maxLen, text, prefix, drained, residual, ring, packed, tail, ready, todo, faults, failed>>

Layers == 1 .. NLayers
RingIndex == 0 .. maxLen - 1    \* indices a write may compute
Idle == todo.ids = <<>>
NoPrefill == [ids |-> <<>>, pin |-> FALSE]
Prompts(n) == UNION {[1 .. m -> Tokens] : m \in 1 .. n}

CacheInit == /\ maxLen \in Contexts
        /\ text = <<>> /\ prefix = 0
        /\ drained = 0 /\ residual = 0
        /\ ring = [l \in Layers |-> [i \in RingIndex |-> NoRow]]
        /\ packed = [l \in Layers |-> [p \in 0 .. maxLen - 1 |-> NoRow]]
        /\ tail = [l \in Layers |-> <<>>]
        /\ ready = FALSE /\ todo = NoPrefill
        /\ faults = 0 /\ failed = FALSE

-----------------------------------------------------------------------------
(* The cache as a record, so that the parts of a call compose; an outcome is a *)
(* cache and whether the part that led to it succeeded.                       *)
Cache == [text |-> text, drained |-> drained, residual |-> residual,
          ring |-> ring, packed |-> packed]
Ok(c) == [c |-> c, ok |-> TRUE]
Failed(c) == [c |-> c, ok |-> FALSE]
CanFail == faults < MaxFaults[maxLen]

Becomes(o) == /\ text' = o.c.text /\ drained' = o.c.drained /\ residual' = o.c.residual
              /\ ring' = o.c.ring /\ packed' = o.c.packed
              /\ faults' = IF o.ok THEN faults ELSE faults + 1
              /\ failed' = (o.c.text # <<>> /\ (failed \/ ~o.ok))

\* The layers write row t at index (q_position + t) - drained, unchecked.
Appended(c, ids) ==
    LET first == Len(c.text) - c.drained
        row(old, i) == IF i \in first .. first + Len(ids) - 1 THEN ids[i - first + 1] ELSE old
    IN  [c EXCEPT !.ring = [l \in Layers |-> [i \in RingIndex |-> row(@[l][i], i)]],
                  !.text = @ \o ids,
                  !.residual = @ + Len(ids)]

\* kivi_drain_one_layer in layers ls: pack the R oldest rows, move the rest down.
Moved(c, ls) ==
    LET group == c.drained .. c.drained + R - 1 IN
    [c EXCEPT
       !.packed = [l \in Layers |-> [p \in DOMAIN @[l] |->
            IF l \in ls /\ p \in group THEN c.ring[l][p - c.drained] ELSE @[l][p]]],
       !.ring = [l \in Layers |-> [i \in RingIndex |->
            IF l \in ls /\ i < c.residual - R THEN @[l][i + R] ELSE @[l][i]]]]

DrainGroup(c) == [Moved(c, Layers) EXCEPT !.drained = @ + R, !.residual = @ - R]

\* The first g groups drained.
Drained(c, g) ==
    LET after[h \in 0 .. g] == IF h = 0 THEN c ELSE DrainGroup(after[h - 1]) IN after[g]

\* Mutant: a full ring of exactly R rows is not drained.
DrainLate(c) == {Ok(IF c.residual > R THEN DrainGroup(c) ELSE c)}

\* transformer_kivi_drain_full; the layers before one that fails have moved
\* their rows, and the counters have not.
DrainFull(c) ==
    {Ok(Drained(c, c.residual \div R))} \cup
    {Failed(Moved(Drained(c, g), 1 .. l)) :
        g \in IF CanFail THEN 0 .. (c.residual \div R) - 1 ELSE {}, l \in 0 .. NLayers - 1}

\* transformer_kv_truncate after a verify: clamps at the drained groups.
KvTruncate(c, n) ==
    LET len == IF n < c.drained THEN c.drained ELSE n
    IN  DrainFull([c EXCEPT !.text = SubSeq(@, 1, len), !.residual = len - c.drained])

\* Mutant: the pinned rows are not put back.
ResetCounters(c, n) ==
    {Ok([c EXCEPT !.text = SubSeq(@, 1, n), !.drained = (n \div R) * R, !.residual = n % R])}

\* transformer_session_reset to a prefix of n rows: the counters first, then the
\* pinned rows if a drain has moved others over them, as far as the rings map.
ResetTo(c, n) ==
    LET base == (n \div R) * R
        left == n - base
        moved == c.drained # base /\ left # 0 /\ Len(tail[1]) = left
        to(ls) == [c EXCEPT
                     !.text = SubSeq(@, 1, n), !.drained = base, !.residual = left,
                     !.ring = [l \in Layers |-> [i \in RingIndex |->
                                 IF l \in ls /\ i < left THEN tail[l][i + 1] ELSE @[l][i]]]]
    IN  IF moved
        THEN {Ok(to(Layers))} \cup {Failed(to(1 .. l)) : l \in IF CanFail THEN 0 .. NLayers - 1 ELSE {}}
        ELSE {Ok(to({}))}

-----------------------------------------------------------------------------
(* geist_session_prefill_tokens *)
Prefill ==
    /\ Idle
    /\ \E ids \in Prompts(MaxPrompt) :
         /\ Len(text) + Len(ids) <= maxLen
         /\ todo' = [ids |-> ids, pin |-> FALSE]
    /\ UNCHANGED <<maxLen, text, prefix, drained, residual, ring, packed, tail, ready, faults, failed>>

(* transformer_pin_prefix: unpin and empty the session, then prefill. *)
PinPrefix ==
    /\ Idle
    /\ \E ids \in {s \in Prompts(MaxPrompt) : Len(s) <= maxLen} \cup {<<>>} :
         todo' = [ids |-> ids, pin |-> ids # <<>>]
    /\ prefix' = 0
    /\ \E o \in ResetTo(Cache, 0) : Becomes(o)
    /\ ready' = FALSE
    /\ UNCHANGED <<maxLen, tail>>

\* The rows layer l of c still has in its ring.
Residual(c, l) == [i \in 1 .. c.residual |-> c.ring[l][i - 1]]

\* Mutant: the copy of an earlier pin is kept.
PinKept(c, ls) == [l \in Layers |-> IF tail[l] = <<>> THEN Residual(c, l) ELSE tail[l]]

\* transformer_kivi_pin_save: layers ls are copied, the rest of the copy is as allocated.
PinSaved(c, ls) ==
    [l \in Layers |-> IF l \in ls THEN Residual(c, l) ELSE [i \in 1 .. c.residual |-> NoRow]]

(* One sub-batch of a prefill; the last one of a pin saves the ring's rows. *)
SubBatch ==
    /\ ~Idle
    /\ UNCHANGED maxLen
    /\ LET n    == IF Len(todo.ids) < MMax THEN Len(todo.ids) ELSE MMax
           last == n = Len(todo.ids)
       IN  \E o \in DrainFull(Appended(Cache, SubSeq(todo.ids, 1, n))) :
             LET pins == o.ok /\ last /\ todo.pin IN
             /\ ready' = ((o.ok /\ last) \/ ready)
             /\ todo' = IF last \/ ~o.ok THEN NoPrefill ELSE [todo EXCEPT !.ids = SubSeq(@, n + 1, Len(@))]
             /\ \/ /\ ~pins
                   /\ Becomes(o)
                   /\ UNCHANGED <<prefix, tail>>
                \/ /\ pins
                   /\ Becomes(o)
                   /\ prefix' = Len(o.c.text)
                   /\ tail' = PinSaved(o.c, Layers)
                \/ /\ pins /\ CanFail /\ o.c.residual > 0
                   /\ Becomes(Failed(o.c))
                   /\ prefix' = 0
                   /\ \E l \in 0 .. NLayers - 1 : tail' = PinSaved(o.c, 1 .. l)

\* The running prefill sees a cancel before its next sub-batch.
CancelPrefill ==
    /\ MayCancel /\ ~Idle
    /\ todo' = NoPrefill /\ ready' = FALSE
    /\ UNCHANGED <<maxLen, text, prefix, drained, residual, ring, packed, tail, faults, failed>>

(* transformer_decode_step: after a failing drain the row is there, and the    *)
(* logits pending are still those before it.                                  *)
Decode ==
    /\ Idle /\ ready
    /\ Len(text) + 1 <= maxLen
    /\ \E tok \in Tokens : \E o \in DrainFull(Appended(Cache, <<tok>>)) : Becomes(o)
    /\ UNCHANGED <<maxLen, prefix, tail, ready, todo>>

(* spec_verify: the burst, its rollback, and the correction, prefilled unless *)
(* the rollback failed, the context is full or the prefill is cancelled.      *)
Verify ==
    /\ Idle /\ ready
    /\ \E drafts \in Prompts(IF MMax < SpecMax THEN MMax ELSE SpecMax) :
         /\ Len(text) + Len(drafts) <= maxLen
         /\ \E accepted \in 1 .. Len(drafts), correction \in Tokens :
              LET burst == Appended(Cache, drafts)
                  all   == accepted = Len(drafts)
              IN  \E kept \in IF all THEN {Ok(burst)}
                              ELSE KvTruncate(burst, Len(text) + accepted) :
                    LET room == Len(kept.c.text) + 1 <= maxLen IN
                    \/ /\ ~kept.ok \/ ~room
                       /\ Becomes(kept)
                       /\ ready' = TRUE
                    \/ /\ kept.ok /\ room
                       /\ \E o \in DrainFull(Appended(kept.c, <<correction>>)) :
                            Becomes(o) /\ ready' = (o.ok \/ all)
                    \/ /\ MayCancel /\ kept.ok /\ room
                       /\ Becomes(kept)
                       /\ ready' = FALSE
    /\ UNCHANGED <<maxLen, prefix, tail, todo>>

(* transformer_session_truncate: refuses below the packed groups; no drain. *)
TruncateTo ==
    /\ Idle
    /\ \E n \in prefix .. Len(text) - 1 :
         \/ /\ n = 0
            /\ \E o \in ResetTo(Cache, 0) : Becomes(o)
         \/ /\ n > 0 /\ n >= drained
            /\ Becomes(Ok([Cache EXCEPT !.text = SubSeq(@, 1, n), !.residual = n - drained]))
    /\ ready' = FALSE
    /\ UNCHANGED <<maxLen, prefix, tail, todo>>

(* transformer_session_reset *)
Reset ==
    /\ Idle
    /\ \E o \in ResetTo(Cache, prefix) : Becomes(o)
    /\ ready' = FALSE
    /\ UNCHANGED <<maxLen, prefix, tail, todo>>

CacheNext == Prefill \/ PinPrefix \/ SubBatch \/ CancelPrefill \/ Decode \/ Verify
        \/ TruncateTo \/ Reset

CacheSpec == CacheInit /\ [][CacheNext]_cacheVars

-----------------------------------------------------------------------------
(* Properties *)

\* Attention reads position p from the packed groups below drained and from the
\* ring above it: through every drain, burst, rollback, truncate and return to a
\* pinned prefix, the row it finds there, in every layer, is the row of that
\* position.  A failed drain, or copy back, can be undone only by emptying the
\* session: then, whatever layers had moved their rows, it is right again.
CacheIsText ==
    ~failed => \A l \in Layers, p \in 0 .. Len(text) - 1 :
        text[p + 1] = IF p < drained THEN packed[l][p] ELSE ring[l][p - drained]

\* A pinned prefix can always be returned to: its rows past the last whole
\* group are in the copy, and its groups are packed.  No failure takes that
\* away, and one while pinning leaves no pin.
PrefixKept ==
    prefix > 0 => /\ \A l \in Layers : tail[l] = SubSeq(text, (prefix \div R) * R + 1, prefix)
                  /\ (prefix \div R) * R <= drained

\* A whole group waits unpacked only after a verify whose correction did not
\* run, because the context is full or it was cancelled, or a drain that failed.
UndrainedOnlyCut == residual >= R => ~ready \/ Len(text) = maxLen \/ failed

=============================================================================
