------------------------------- MODULE Session -------------------------------
(***************************************************************************)
(* One session driven by its caller through the public calls of             *)
(* include/geist_util.h, and cancelled from another thread.  A call runs to  *)
(* its end before the next one begins, except for a prefill, whose           *)
(* sub-batches are separate steps: geist_session_cancel may land between two.*)
(***************************************************************************)
EXTENDS SessionOps

\* Bounds on what the caller of a session does: the calls it makes, the tokens
\* of one prefill or pin_prefix, the guesses of one verify_drafts, and in how many
\* calls a backend operation fails.
CONSTANT Bounds(_)

AllCalls == {"prefill", "pin", "decode", "verify", "truncate", "checkpoint",
             "reset", "snapshot", "restore", "cancel"}

ASSUME BoundsAssumption ==
    \A m \in Models : Bounds(NewSession(m)) \in
        [calls : SUBSET AllCalls, prompt : Nat \ {0}, guesses : Nat \ {0}, faults : Nat]

VARIABLES sess,    \* the session
          job,     \* the running prefill: ids still to go, and whether it pins
          image,   \* the snapshot the caller holds
          out,     \* what the last call returned
          faults   \* calls so far in which a backend operation has failed

vars == <<sess, job, image, out, faults>>

NoJob == [running |-> FALSE, ids |-> <<>>, pin |-> FALSE]
NoImage == [taken |-> FALSE, of |-> Image(NewSession(CHOOSE m \in Models : TRUE))]
Prompts(n) == UNION {[1 .. m -> Tokens] : m \in 1 .. n}

Init == /\ sess \in {NewSession(m) : m \in Models}
        /\ job = NoJob
        /\ image = NoImage
        /\ out = [st |-> "OK", toks |-> <<>>]
        /\ faults = 0

CanFail == faults < Bounds(sess).faults
Idle == ~job.running
May(call) == call \in Bounds(sess).calls /\ Idle

\* The call returns with outcome o.
Returns(o) ==
    /\ sess' = o.s
    /\ out' = [st |-> o.st, toks |-> o.toks]
    /\ faults' = faults + o.faults

Call(outs) == \E o \in outs : Returns(o) /\ UNCHANGED <<job, image>>

-----------------------------------------------------------------------------
(* geist_session_prefill_tokens: settle, check the room, then sub-batches. *)
Prefill ==
    /\ May("prefill")
    /\ \E ids \in Prompts(Bounds(sess).prompt), o \in Settle(sess, CanFail) :
         IF o.st # "OK" \/ ~RoomFor(o.s, Len(ids))
         THEN /\ Returns(IF o.st # "OK" THEN o
                         ELSE Out(Commit(o.s), "TOO_MANY_TOKENS", <<>>, 0))
              /\ UNCHANGED job
         ELSE /\ Returns([o EXCEPT !.st = "RUNNING", !.s = Commit(@)])
              /\ job' = [running |-> TRUE, ids |-> ids, pin |-> FALSE]
    /\ UNCHANGED image

\* pin_prefix: unpin and empty the session, then prefill the prefix.
PinPrefix ==
    /\ May("pin")
    /\ \E ids \in Prompts(Bounds(sess).prompt) \cup {<<>>}, o \in Settle(sess, CanFail) :
         LET empty == Reset([o.s EXCEPT !.prefixLength = 0]) IN
         \/ /\ o.st # "OK"
            /\ Returns(o)
            /\ UNCHANGED job
         \/ /\ o.st = "OK"
            /\ ids # <<>> /\ sess.recurrent
            /\ Returns([o EXCEPT !.st = "UNSUPPORTED"])
            /\ UNCHANGED job
         \/ /\ o.st = "OK"
            /\ ids = <<>>
            /\ Returns([o EXCEPT !.s = empty])
            /\ UNCHANGED job
         \/ /\ o.st = "OK"
            /\ ids # <<>> /\ ~sess.recurrent /\ RoomFor(empty, Len(ids))
            /\ Returns([o EXCEPT !.st = "RUNNING", !.s = empty])
            /\ job' = [running |-> TRUE, ids |-> ids, pin |-> TRUE]
         \/ /\ o.st = "OK"
            /\ ids # <<>> /\ ~sess.recurrent /\ ~RoomFor(empty, Len(ids))
            /\ Returns([o EXCEPT !.st = "TOO_MANY_TOKENS", !.s = empty])
            /\ UNCHANGED job
    /\ UNCHANGED image

\* The next sub-batch of the running prefill.
SubBatch ==
    /\ job.running
    /\ LET n    == IF Len(job.ids) < MMax THEN Len(job.ids) ELSE MMax
           last == n = Len(job.ids)
       IN  \E o \in PrefillChunk(sess, SubSeq(job.ids, 1, n), last, CanFail) :
             IF o.st = "OK" /\ ~last
             THEN /\ Returns([o EXCEPT !.st = "RUNNING"])
                  /\ job' = [job EXCEPT !.ids = SubSeq(@, n + 1, Len(@))]
             ELSE /\ Returns(IF o.st = "OK" /\ job.pin
                                 THEN [o EXCEPT !.s.prefixLength = o.s.kvLen] ELSE o)
                  /\ job' = NoJob
    /\ UNCHANGED image

\* geist_session_cancel, from another thread, at any moment.
Cancel ==
    /\ "cancel" \in Bounds(sess).calls
    /\ ~sess.cancel
    /\ sess' = [sess EXCEPT !.cancel = TRUE]
    /\ UNCHANGED <<job, image, out, faults>>

Decode == May("decode") /\ Call(DecodeStep(sess, CanFail))

Verify ==
    /\ May("verify")
    /\ \E guesses \in Prompts(Bounds(sess).guesses) : Call(VerifyDrafts(sess, guesses, CanFail))

TruncateTo == May("truncate") /\ \E n \in 0 .. sess.maxLen : Call(Truncate(sess, n, CanFail))

TakeCheckpoint == May("checkpoint") /\ Call(Checkpoint(sess, CanFail))

ResetSession == May("reset") /\ Call({Ok(Reset(sess))})

Snapshot ==
    /\ May("snapshot")
    /\ image' = [taken |-> TRUE, of |-> Image(sess)]
    /\ Returns(Ok(sess))
    /\ UNCHANGED job

RestoreSession ==
    /\ May("restore")
    /\ image.taken
    /\ Call(Restore(sess, image.of, CanFail))

Next == \/ Prefill \/ PinPrefix \/ SubBatch \/ Cancel \/ Decode \/ Verify
        \/ TruncateTo \/ TakeCheckpoint \/ ResetSession \/ Snapshot \/ RestoreSession

Spec == Init /\ [][Next]_vars

-----------------------------------------------------------------------------
(* Properties *)

\* As long as nothing has failed, pending logits are those of the whole state of
\* the session, never of a shorter or an abandoned one, and an owed forward is
\* owed to such logits.
PendingIsCurrent ==
    faults = 0 =>
        /\ (Idle /\ sess.logitsValid) =>
              /\ sess.pending.on = Content(sess)
              /\ sess.pending.rec = sess.rec
        /\ sess.deferred => sess.logitsValid

\* The recurrent state has absorbed exactly the cached positions: through
\* deferred forwards, verifies with partial accepts (row states or replay),
\* cancelled replays, checkpoints, truncations, resets and snapshots.
RecurrenceMatchesCache == (faults = 0 /\ sess.recurrent) => sess.rec = Content(sess)

\* A truncate, checkpoint, decode or pin that is refused leaves the session as
\* the caller sees it: text, pending logits, checkpoints and pin.
RefusalsChangeNothing ==
    [][(out' # out /\ out'.st \in {"UNSUPPORTED", "INVALID_ARG", "INVALID_STATE"}) =>
          /\ Text(sess') = Text(sess)
          /\ sess'.logitsValid = sess.logitsValid
          /\ sess'.ckptLens = sess.ckptLens
          /\ sess'.prefixLength = sess.prefixLength]_vars

\* A cancelled call keeps the sub-batches that ran, leaves nothing pending that
\* a prefill could have made stale, and the request goes away with exactly the
\* call that reports it: one raised before a prefill starts is not lost.
CancelIsExact ==
    [][/\ (sess.cancel /\ ~sess'.cancel) <=> (out'.st = "CANCELLED" /\ sess.cancel /\ sess' # sess)
       /\ (out'.st = "CANCELLED" /\ job.running /\ ~job'.running) =>
             ~sess'.logitsValid /\ Text(sess') = Text(sess)]_vars

\* The session is a Conversation: deferred forwards, transactions and chunking
\* are invisible, and every returned token is the model's continuation.  After a
\* backend failure nothing is claimed but FailuresLoseNothing.
Says == IF out.st = "OK" THEN out.toks ELSE <<>>
Contract == INSTANCE Conversation WITH
    text <- Text(sess),
    pinned <- SubSeq(sess.rows, 1, sess.prefixLength),
    ready <- Idle /\ sess.logitsValid,
    said <- Says,
    image <- [taken |-> image.taken,
              text |-> image.of.rows \o (IF image.of.deferred THEN <<Predict(image.of.pending.on)>> ELSE <<>>),
              pinned |-> SubSeq(image.of.rows, 1, image.of.prefixLength),
              ready |-> image.of.logitsValid]
ImplementsConversation == Contract!Init /\ [][faults' = 0 => Contract!Next]_(Contract!vars)

\* A backend failure takes nothing from the text: the finished sub-batches and
\* the owed token stay, and a later call continues from them, also where a failed
\* roll-back leaves rejected drafts behind them, or a restore that fails silently
\* replays the accepted ones there.  A failed restore of a snapshot, which has
\* already overwritten the session, leaves it reset (snapshot.c).
FailuresLoseNothing ==
    [][faults' # faults =>
          IF RestoreSession
          THEN Text(sess') = <<>> /\ ~sess'.logitsValid
          ELSE /\ Contract!Begins(Text(sess), Text(sess'))
               /\ sess'.prefixLength \in {0, sess.prefixLength}]_vars

=============================================================================
