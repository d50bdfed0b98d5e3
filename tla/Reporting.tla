------------------------------ MODULE Reporting -----------------------------
(***************************************************************************)
(* What a run reports: the log lines captured while the script runs        *)
(* (chronon-telemetry log_capture.rs), the error message on its way        *)
(* through redact.rs and sanitize.rs into the run row, and the retry that  *)
(* finalize_failed_run computes (chronon-runtime retry.rs).                *)
(*                                                                         *)
(* All of it is done by the worker slot that holds the run, on strings     *)
(* that are cut at byte positions: a cut inside a character is a panic,    *)
(* and a slot that panics is gone (run_worker_loop spawns its slots once). *)
(* Its run is reclaimed by another slot when the lease runs out.           *)
(*                                                                         *)
(* A text is a sequence of tokens that stand for what the code looks for:  *)
(* "a" a character of a URL scheme, "w" a character of two bytes, " " a    *)
(* character that ends a URL, "/" one of / ? #, ",", "@", "://", "pw=" and *)
(* "tk=" two of the eight needles of sanitize_error_message, "***" and     *)
(* "[r]" what replaces a secret, "nl".  Only "w" can be cut in the middle, *)
(* so every other token counts for one byte.                               *)
(* Numbers are scaled: 8 bytes to MaskBytes, the largest f64, u64, i64 and *)
(* the last representable time to F64Max, U64Max, I64Max and LastTime.     *)
(***************************************************************************)
EXTENDS Integers, Sequences, FiniteSets, SequencesExt

CONSTANTS
    NoValue,     \* Option::None
    Slots,       \* worker slots
    Lines,       \* log messages of the script
    Messages,    \* error messages of the script
    Policies,    \* retry policies: max_attempts, base, multiplier, max_delay
    CaptureMax,  \* DEFAULT_MAX_CAPTURE_BYTES
    MaskBytes,   \* bytes masked after a needle
    MessageMax,  \* MAX_ERROR_MESSAGE_CHARS
    MaxLines,    \* bound: log events of an execution
    F64Max, U64Max, I64Max, LastTime

ASSUME ReportingNumbers ==
    /\ {CaptureMax, MaskBytes, MessageMax, MaxLines, F64Max, U64Max, I64Max, LastTime}
         \subseteq Nat
    /\ LastTime < I64Max /\ U64Max = 2 * I64Max + 1 /\ U64Max < F64Max

VARIABLES
    alive,    \* slots that have not panicked
    holder,   \* the slot that holds the run, or NoValue
    attempt,  \* the attempt of the run
    policy,   \* the job's retry policy
    message,  \* the error message that the script ends with, if it fails
    status,   \* the run's status
    capture,  \* CaptureInner: used, out, err
    logged,   \* the lines the script logged, per stream
    ended,    \* what execute_script_catch_panic returned: [outcome, logs]
    report,   \* the run's stdout_text, stderr_text and error, once it is terminal
    retry     \* the delay of the retry that was enqueued, or NoValue

reportVars == <<alive, holder, attempt, policy, message, status, capture, logged, ended,
                report, retry>>

----------------------------------------------------------------------------
(* Texts.                                                                  *)

Width(c) == IF c = "w" THEN 2 ELSE 1
Bytes(t) == FoldLeft(LAMBDA n, c : n + Width(c), 0, t)
Up(t, n) == SubSeq(t, 1, n)
From(t, n) == SubSeq(t, n, Len(t))
At(t, c) == {n \in DOMAIN t : t[n] = c}
Occurs(t, s) == \E i \in 0..(Len(s) - Len(t)) : SubSeq(s, i + 1, i + Len(t)) = t

(* &t[..n]: the tokens within n bytes, and whether n is between two. *)
Cut(t, n) == CHOOSE i \in 0..Len(t) : Bytes(Up(t, i)) <= n /\ (i = Len(t) \/ Bytes(Up(t, i + 1)) > n)
CutPanics(t, n) == n < Bytes(t) /\ Bytes(Up(t, Cut(t, n))) # n

----------------------------------------------------------------------------
(* redact_credentials_in_text.                                             *)

(* consume_endpoint_prefix: up to the next white space, quote or bracket. *)
UrlEnd(t, at) == Min({n \in At(t, " ") : n >= at} \cup {Len(t) + 1}) - 1

(* redact_single_endpoint: "***@" for what is before the first "@" of the  *)
(* authority, unless a path, a query or a fragment begins before it.       *)
RedactSingle(url) ==
    LET p   == Min(At(url, "://"))
        ats == {n \in At(url, "@") : n > p}
        n   == Min(ats)
    IN  IF At(url, "://") = {} \/ ats = {} \/ "/" \in Range(SubSeq(url, p + 1, n - 1)) THEN url
        ELSE Up(url, p) \o <<"***">> \o From(url, n)

(* redact_endpoint: one by one between the commas. *)
RECURSIVE RedactEndpoint(_)
RedactEndpoint(url) ==
    LET n == Min(At(url, ","))
    IN  IF At(url, ",") = {} THEN RedactSingle(url)
        ELSE RedactSingle(Up(url, n - 1)) \o <<",">> \o RedactEndpoint(From(url, n + 1))

(* The start of the first URL in t: after the last character before "://"  *)
(* that is none of a scheme; one byte after where that character starts.   *)
HasUrl(t) == At(t, "://") # {}
FirstColon(t) == Min(At(t, "://"))
BeforeUrl(t) == Max({n \in 1..(FirstColon(t) - 1) : t[n] # "a"} \cup {0})

RECURSIVE Redacted(_)
Redacted(t) ==
    IF ~HasUrl(t) THEN t
    ELSE LET j == BeforeUrl(t)
             e == UrlEnd(t, FirstColon(t))
         IN  Up(t, j) \o RedactEndpoint(SubSeq(t, j + 1, e)) \o Redacted(From(t, e + 1))

RECURSIVE RedactPanics(_)
RedactPanics(t) ==
    /\ HasUrl(t)
    /\ \/ BeforeUrl(t) > 0 /\ Width(t[BeforeUrl(t)]) > 1
       \/ RedactPanics(From(t, UrlEnd(t, FirstColon(t)) + 1))

(* sanitize_error_message: for each needle in turn, mask what follows its  *)
(* first occurrence; then truncate.                                        *)
Needles == <<"pw=", "tk=">>
AfterNeedle(t, needle) == From(t, Min(At(t, needle)) + 1)
MaskOne(t, needle) ==
    IF At(t, needle) = {} THEN t
    ELSE LET rest == AfterNeedle(t, needle)
         IN  Up(t, Len(t) - Len(rest)) \o <<"[r]">> \o From(rest, Cut(rest, MaskBytes) + 1)
MaskedUpTo(k, t) == FoldLeft(MaskOne, t, SubSeq(Needles, 1, k))
Masked(t) == MaskedUpTo(Len(Needles), t)

(* Mutant: the mask may reach past the end of the message. *)
MaskOnePanics_PastEnd(t, needle) ==
    /\ At(t, needle) # {}
    /\ LET rest == AfterNeedle(t, needle) IN
       CutPanics(rest, MaskBytes) \/ Bytes(rest) < MaskBytes

MaskOnePanics(t, needle) == At(t, needle) # {} /\ CutPanics(AfterNeedle(t, needle), MaskBytes)
MaskPanics(t) == \E k \in DOMAIN Needles : MaskOnePanics(MaskedUpTo(k - 1, t), Needles[k])
Truncated(t) == IF Len(t) > MessageMax THEN Up(t, MessageMax) \o <<"...">> ELSE t

Sanitised(t) == Truncated(Masked(Redacted(t)))
MessagePanics(t) == RedactPanics(t) \/ MaskPanics(Redacted(t))

----------------------------------------------------------------------------
(* Log capture.                                                            *)

Empty == [used |-> 0, out |-> <<>>, err |-> <<>>]
NoLogs == [out |-> <<>>, err |-> <<>>]

(* CaptureInner::append. *)
Appended(c, stream, line) ==
    LET chunk == Up(line, Cut(line, CaptureMax - c.used))
        sep   == IF c[stream] = <<>> THEN <<>> ELSE <<"nl">>
        take  == Up(chunk, Cut(chunk, CaptureMax - c.used - Len(sep)))
    IN  IF line = <<>> \/ c.used >= CaptureMax THEN c
        ELSE [c EXCEPT ![stream] = @ \o sep \o take, !.used = @ + Len(sep) + Bytes(take)]

AppendPanics(c, stream, line) ==
    LET budget == CaptureMax - c.used
        sep    == IF c[stream] = <<>> THEN 0 ELSE 1
    IN  /\ line # <<>> /\ budget > 0
        /\ CutPanics(line, budget) \/ CutPanics(Up(line, Cut(line, budget)), budget - sep)

(* ensure_stderr_message *)
WithMessage(t, m) ==
    IF m = <<>> \/ Occurs(m, t) THEN t ELSE IF t = <<>> THEN m ELSE t \o <<"nl">> \o m

----------------------------------------------------------------------------
(* The delay of a retry.                                                   *)

ShouldRetry(p, n) == n > 0 /\ n <= p.max_attempts

Raw(p, n) == p.base * p.multiplier^(n - 1)

(* RetryPolicy::delay_ms_after: what is not finite, or not positive, is 0, *)
(* with a cap as without.                                                  *)
DelayMsAfter(p, n) ==
    LET ms == IF Raw(p, n) \in 1..F64Max THEN Min({Raw(p, n), U64Max}) ELSE 0
    IN  IF p.max_delay = 0 THEN ms ELSE Min({ms, p.max_delay})

(* as i64, then .max(0) *)
AsDelay(u) == IF u > I64Max THEN 0 ELSE u
DelayPanics(u) == AsDelay(u) > LastTime

----------------------------------------------------------------------------
(* The worker slot.                                                        *)

Claim(s) ==
    /\ s \in alive /\ holder = NoValue /\ status = "queued"
    /\ holder' = s /\ status' = "running"
    /\ capture' = Empty /\ logged' = NoLogs /\ ended' = NoValue
    /\ UNCHANGED <<alive, attempt, policy, message, report, retry>>

Running == status = "running" /\ holder \in alive /\ ended = NoValue
Ends(outcome, logs) == ended' = [outcome |-> outcome, logs |-> logs]

(* on_event, by level.  A panic is one of the script's task. *)
LogEvent ==
    /\ Running
    /\ \E stream \in {"out", "err"}, line \in Lines :
          /\ Len(logged.out) + Len(logged.err) < MaxLines
          /\ IF AppendPanics(capture, stream, line)
             THEN Ends("panicked", NoLogs) /\ UNCHANGED <<capture, logged>>
             ELSE /\ capture' = Appended(capture, stream, line)
                  /\ logged' = [logged EXCEPT ![stream] = Append(@, line)]
                  /\ UNCHANGED ended
    /\ UNCHANGED <<alive, holder, attempt, policy, message, status, report, retry>>

(* The script returns, and CaptureScope::finish drains what it logged; or  *)
(* its time is up, and what it logged is lost with it.                     *)
ScriptReturns ==
    /\ Running
    /\ LET logs == [out |-> capture.out, err |-> capture.err] IN
       \/ Ends("ok", logs)
       \/ Ends("error", [logs EXCEPT !.err = WithMessage(@, message)])
       \/ Ends("timeout", NoLogs)
    /\ UNCHANGED <<alive, holder, attempt, policy, message, status, capture, logged, report, retry>>

Reports(out, err, error) == report' = [out |-> out, err |-> err, error |-> error]

Complete ==
    /\ status = "running" /\ holder \in alive /\ ended # NoValue /\ ended.outcome = "ok"
    /\ status' = "success" /\ holder' = NoValue
    /\ Reports(ended.logs.out, ended.logs.err, <<>>)
    /\ UNCHANGED <<alive, attempt, policy, message, capture, logged, ended, retry>>

(* The message of a panic or a timeout is the slot's own. *)
Error == IF ended.outcome = "error" THEN message ELSE <<"a">>

SlotPanics == alive' = alive \ {holder} /\ UNCHANGED <<status, report, retry>>

(* finalize_failed_run: the message first, then the write, then the retry. *)
FinalizeFailedRun ==
    /\ status = "running" /\ holder \in alive /\ ended # NoValue /\ ended.outcome # "ok"
    /\ LET m == Sanitised(Error)
           u == DelayMsAfter(policy, attempt)
       IN  \/ MessagePanics(Error) /\ SlotPanics
           \/ /\ ~MessagePanics(Error)
              /\ status' = IF ended.outcome = "timeout" THEN "timeout" ELSE "failed"
              /\ Reports(ended.logs.out, WithMessage(ended.logs.err, m), m)
              /\ \/ ~ShouldRetry(policy, attempt) /\ UNCHANGED <<alive, retry>>
                 \/ /\ ShouldRetry(policy, attempt) /\ DelayPanics(u)
                    /\ alive' = alive \ {holder} /\ UNCHANGED retry
                 \/ /\ ShouldRetry(policy, attempt) /\ ~DelayPanics(u)
                    /\ retry' = AsDelay(u) /\ UNCHANGED alive
    /\ holder' = IF status' = "running" THEN holder ELSE NoValue
    /\ UNCHANGED <<attempt, policy, message, capture, logged, ended>>

(* reclaim_expired_run_leases, for a run whose slot is gone. *)
ReclaimRun ==
    /\ status = "running" /\ holder \notin alive
    /\ status' = "queued" /\ holder' = NoValue
    /\ UNCHANGED <<alive, attempt, policy, message, capture, logged, ended, report, retry>>

----------------------------------------------------------------------------
ReportInit ==
    /\ alive = Slots /\ holder = NoValue
    /\ attempt \in 1..2 /\ policy \in Policies /\ message \in Messages
    /\ status = "queued" /\ capture = Empty /\ logged = NoLogs /\ ended = NoValue
    /\ report = NoValue /\ retry = NoValue

ReportIdle ==
    /\ alive = {} /\ holder = NoValue /\ attempt = 0 /\ policy = NoValue /\ message = <<>>
    /\ status = "none" /\ capture = Empty /\ logged = NoLogs /\ ended = NoValue
    /\ report = NoValue /\ retry = NoValue

ReportNext ==
    \/ \E s \in Slots : Claim(s)
    \/ LogEvent \/ ScriptReturns \/ Complete \/ FinalizeFailedRun \/ ReclaimRun

----------------------------------------------------------------------------
Joined(lines) ==
    FoldLeft(LAMBDA t, l : IF l = <<>> THEN t ELSE IF t = <<>> THEN l ELSE t \o <<"nl">> \o l,
             <<>>, lines)

(* What is captured of both streams together stays within the budget, and  *)
(* of each it is the beginning of what the script logged, lines in order:  *)
(* nothing after the first cut (CaptureInner::append).                     *)
CaptureIsAPrefix ==
    /\ Bytes(capture.out) + Bytes(capture.err) = capture.used /\ capture.used <= CaptureMax
    /\ \A stream \in {"out", "err"} : IsPrefix(capture[stream], Joined(logged[stream]))

(* A character of two bytes right before the scheme of a URL, and one that *)
(* the end of a mask falls into.                                           *)
WideBeforeUrl(t) ==
    \E n \in At(t, "w"), m \in At(t, "://") : n < m /\ \A k \in (n + 1)..(m - 1) : t[k] = "a"
WideAcrossMask(t) ==
    \E i \in DOMAIN Needles : \E n \in At(t, Needles[i]), m \in At(t, "w") :
        n < m /\ Bytes(SubSeq(t, n + 1, m - 1)) = MaskBytes - 1

(* A worker slot is lost only to a text or a delay that no cut, no sum can *)
(* take: such a character in the message that the script ended with, or a  *)
(* delay that an i64 holds and a time does not (finalize_failed_run).      *)
LostSlotHasCause ==
    (policy # NoValue /\ alive # Slots)
        => \/ WideBeforeUrl(message)
           \/ \E k \in DOMAIN Needles : WideAcrossMask(MaskedUpTo(k - 1, Redacted(message)))
           \/ /\ Raw(policy, attempt) \in (LastTime + 1)..I64Max
              /\ policy.max_delay = 0 \/ policy.max_delay > LastTime

(* A run that failed says why: its stderr text has the message of its      *)
(* error, after what the script logged (ensure_stderr_message).            *)
FailureIsExplained ==
    (report # NoValue /\ report.error # <<>>)
        => /\ Occurs(report.error, report.err)
           /\ IsPrefix(ended.logs.err, report.err)

(* The error column has no user information of a URL of the message,       *)
(* wherever in the text the URL is and however many a comma joins, up to   *)
(* the first "@": unless the user information has a comma, or one of / ?   *)
(* #, which leave it as it is.  Of a URL inside a URL nothing is said      *)
(* (redact_credentials_in_text).                                           *)
ErrorIsRedacted ==
    (report # NoValue)
        => LET t == report.error
               first(n) == \A k \in At(t, "://") :
                              k < n => \E m \in k..n : t[m] \in {" ", ","}
           IN  \A n \in At(t, "://"), at \in At(t, "@") :
                 (first(n) /\ n < at /\ \A k \in (n + 1)..(at - 1) : t[k] \notin {" ", ",", "/", "@"})
                     => SubSeq(t, n + 1, at - 1) = <<"***">>

(* A retry waits as long as the policy says, or as long as its cap.  It    *)
(* does not wait at all, whatever the cap, where the policy's back-off is  *)
(* negative or grows past all numbers; nor where more than an i64 holds is *)
(* left of it (delay_ms_after, finalize_failed_run).                       *)
DelayIsThePolicys ==
    (retry # NoValue)
        => LET raw == Raw(policy, attempt)
               cap == policy.max_delay
           IN  \/ retry = raw
               \/ cap > 0 /\ retry = cap /\ raw \in cap..F64Max
               \/ retry = 0 /\ (raw < 0 \/ raw > F64Max)
               \/ retry = 0 /\ raw > I64Max /\ (cap = 0 \/ cap > I64Max)

(* A failure ends in a report that explains it, with an error column that  *)
(* has no credentials of the usual form, and in the retry the policy asks  *)
(* for, or else the slot is lost for a known cause (finalize_failed_run).  *)
(* The stderr text is another matter: execute_script puts the message into *)
(* it as it is, and it is stored beside the sanitised one.                 *)
FailuresReported ==
    /\ CaptureIsAPrefix /\ FailureIsExplained /\ ErrorIsRedacted
    /\ DelayIsThePolicys /\ LostSlotHasCause
=============================================================================
