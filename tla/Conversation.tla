---------------------------- MODULE Conversation ----------------------------
(***************************************************************************)
(* What a caller of the session API (include/geist_util.h) may rely on,     *)
(* with no trace of caches, recurrent state, transactions or deferred       *)
(* forwards: a session holds a text; a prefill appends to it, a decoding    *)
(* call appends and returns the model's own continuation of it, truncate    *)
(* keeps a beginning of it, reset returns to the pinned beginning, and a    *)
(* snapshot puts a whole earlier text back.                                 *)
(***************************************************************************)
EXTENDS Naturals, Sequences

CONSTANTS Tokens, Predict(_)    \* the greedy next token of a text

VARIABLES text,    \* the positions in the session's state
          pinned,  \* the pinned beginning of text
          ready,   \* are logits pending, so that a decoding call can run
          said,    \* the tokens the last call returned
          image    \* the snapshot the caller holds

vars == <<text, pinned, ready, said, image>>

NoImage == [taken |-> FALSE, text |-> <<>>, pinned |-> <<>>, ready |-> FALSE]

Init == /\ text = <<>> /\ pinned = <<>> /\ ready = FALSE
        /\ said = <<>> /\ image = NoImage

Begins(s, t) == Len(s) <= Len(t) /\ s = SubSeq(t, 1, Len(s))

\* A prefill, or as much of it as ran before it was cancelled.
Extend == /\ Begins(text, text')
          /\ said' = <<>>
          /\ UNCHANGED <<pinned, image>>

\* decode_step, verify_drafts: the returned tokens are the model's continuation
\* of the text, and they are what the text grows by.
Emit == /\ ready /\ ready'
        /\ said' # <<>>
        /\ text' = text \o said'
        /\ \A i \in 1 .. Len(said') : said'[i] = Predict(text \o SubSeq(said', 1, i - 1))
        /\ UNCHANGED <<pinned, image>>

\* truncate, and a draft's rejected rows.
Rewind == /\ Begins(text', text) /\ Begins(pinned, text')
          /\ ~ready'
          /\ said' = <<>>
          /\ UNCHANGED <<pinned, image>>

Reset == /\ text' = pinned
         /\ ~ready'
         /\ said' = <<>>
         /\ UNCHANGED <<pinned, image>>

\* pin_prefix unpins and empties the session before it prefills the new prefix,
\* and pins what has been prefilled when that is done.
Unpin == text' = <<>> /\ pinned' = <<>> /\ ~ready' /\ said' = <<>> /\ UNCHANGED image
Pin == /\ Begins(text, text') /\ ready'
       /\ pinned' = text' /\ said' = <<>>
       /\ UNCHANGED image

\* A call that does nothing to the text.
Keep == text' = text /\ ready' = ready /\ said' = <<>> /\ UNCHANGED <<pinned, image>>

Snapshot == /\ image' = [taken |-> TRUE, text |-> text, pinned |-> pinned, ready |-> ready]
            /\ said' = <<>>
            /\ UNCHANGED <<text, pinned, ready>>

Restore == /\ image.taken
           /\ text' = image.text /\ pinned' = image.pinned /\ ready' = image.ready
           /\ said' = <<>>
           /\ UNCHANGED image

Next == Extend \/ Emit \/ Rewind \/ Reset \/ Unpin \/ Pin \/ Keep \/ Snapshot \/ Restore

Spec == Init /\ [][Next]_vars
=============================================================================
