-------------------------------- MODULE Retries --------------------------------
(***************************************************************************)
(* SharedRetries: what becomes of a message whose actor raises.  A retry   *)
(* is a delayed copy that carries the number of retries so far; the worker *)
(* settles a message with the broker after the middleware has run, and a   *)
(* message that was not settled when its worker died is delivered again.   *)
(***************************************************************************)
EXTENDS Naturals, FiniteSets

CONSTANTS
    ActorOptions,   \* sets of options an actor may declare
    MessageOptions, \* and a sender may add to its message
    MaxCopies,      \* bound: copies of the message, numbered as they are enqueued
    None,
    ExplicitDelay,  \* the delay of a Retry the actor raises itself
    MaxCrashes      \* bound: workers that die

Copies == 1 .. MaxCopies

ASSUME CopiesAssumption ==
    /\ MaxCopies \in Nat \ {0}
    /\ MaxCrashes \in Nat
ASSUME NoneAssumption ==
    /\ None \notin Nat
    /\ None \notin [retries : Nat, done : BOOLEAN, failed : BOOLEAN,
                    at : {"queued", "running", "processed", "settled"}]

VARIABLES
    actor, message, \* the options declared and sent
    copy,           \* each copy of the message, None when not enqueued yet
    delays,         \* the delays each copy may have been enqueued with
    notices,        \* what on_retry_exhausted was sent
    crashes

jobVars == <<actor, message, copy, delays, notices, crashes>>

\* Defaults of the Dramatiq middleware SharedRetries extends.
DefaultMaxRetries == 20
DefaultMinBackoff == 15000
SevenDays == 604800000

Get(options, name, default) == IF name \in DOMAIN options THEN options[name] ELSE default

\* The sender's options override the actor's.
Option(name, default) == Get(message, name, Get(actor, name, default))

\* What the message asks for, or else the actor.
Either(name) == IF Get(message, name, None) # None THEN message[name] ELSE Get(actor, name, None)

Throws == Either("throws")

\* None for no limit.
Maximum == Option("max_retries", DefaultMaxRetries)

RetryAllowed_OffByOne(completed) == Maximum # None => completed <= Maximum    \* mutant

\* retry_when, of which the option holds the counts it accepts, decides alone.
RetryAllowed(completed) ==
    LET predicate == Get(actor, "retry_when", None)
    IN  IF predicate # None THEN completed \in predicate
        ELSE Maximum # None => completed < Maximum

Smaller(a, b) == IF a < b THEN a ELSE b

\* The longest exponent whose product is a 32-bit number for the base options
\* used here; the code stops at 2**32, beyond every cap.
MaxExponent == 16

Backoffs_WrongExponent(completed) ==    \* mutant: the number of the retry as the exponent
    LET base == Option("min_backoff", DefaultMinBackoff)
        cap == Smaller(Option("max_backoff", SevenDays), SevenDays)
    IN  {Smaller(base * 2 ^ Smaller(completed + 1, MaxExponent) + 1000 * jitter, cap) :
            jitter \in 0 .. 10 * (completed + 1) - 1}

\* The delays, in milliseconds, the retry after completed earlier ones may get.
Backoffs(completed) ==
    LET base == Option("min_backoff", DefaultMinBackoff)
        cap == Smaller(Option("max_backoff", SevenDays), SevenDays)
    IN  {Smaller(base * 2 ^ Smaller(completed, MaxExponent) + 1000 * jitter, cap) :
            jitter \in 0 .. 10 * (completed + 1) - 1}

\* A copy as the broker stores it.
Enqueued(retries) ==
    [retries |-> retries, at |-> "queued", done |-> FALSE, failed |-> FALSE]

JobInit ==
    /\ actor \in ActorOptions
    /\ message = << >>
    /\ copy = [c \in Copies |-> None]
    /\ delays = [c \in Copies |-> {}]
    /\ notices = {}
    /\ crashes = 0

Live == {c \in Copies : copy[c] # None}

At(c, point) == copy[c] # None /\ copy[c].at = point

\* A message is sent to the actor.
Send ==
    /\ Live = {}
    /\ message' \in MessageOptions
    /\ copy' = [copy EXCEPT ![1] = Enqueued(0)]
    /\ UNCHANGED <<actor, delays, notices, crashes>>

Deliver(c) ==
    /\ At(c, "queued")
    /\ copy' = [copy EXCEPT ![c].at = "running"]
    /\ UNCHANGED <<actor, message, delays, notices, crashes>>

Processed(c, done, failed) ==
    [copy[c] EXCEPT !.at = "processed", !.done = done, !.failed = failed]

Succeed(c) ==
    /\ At(c, "running")
    /\ copy' = [copy EXCEPT ![c] = Processed(c, TRUE, FALSE)]
    /\ UNCHANGED <<actor, message, delays, notices, crashes>>

\* An exception of the class the options declare is not retried.
FailDeclared(c) ==
    /\ At(c, "running")
    /\ Throws # None
    /\ copy' = [copy EXCEPT ![c] = Processed(c, FALSE, TRUE)]
    /\ UNCHANGED <<actor, message, delays, notices, crashes>>

\* Any other exception, while retries are left: the copy enqueued carries the
\* incremented counter; the delay is the one the exception asks for, if any.
Retry(c) ==
    /\ At(c, "running")
    /\ RetryAllowed(copy[c].retries)
    /\ \E d \in Copies :
        /\ Live = 1 .. d - 1
        /\ copy' = [copy EXCEPT ![c] = Processed(c, FALSE, FALSE),
                                ![d] = Enqueued(copy[c].retries + 1)]
        /\ \/ delays' = [delays EXCEPT ![d] = Backoffs(copy[c].retries)]
           \/ delays' = [delays EXCEPT ![d] = {ExplicitDelay}]
    /\ UNCHANGED <<actor, message, notices, crashes>>

Exhausted_Acknowledged(c) ==    \* mutant: message.fail() is not called
    /\ At(c, "running")
    /\ ~ RetryAllowed(copy[c].retries)
    /\ copy' = [copy EXCEPT ![c] = Processed(c, FALSE, FALSE)]
    /\ UNCHANGED <<actor, message, delays, notices, crashes>>

Exhausted_Requeued(c) ==    \* mutant: the message goes back to the queue as it came
    /\ At(c, "running")
    /\ ~ RetryAllowed(copy[c].retries)
    /\ copy' = [copy EXCEPT ![c] = Enqueued(copy[c].retries)]
    /\ UNCHANGED <<actor, message, delays, notices, crashes>>

Exhausted_CountsThisOne(c) ==   \* mutant: the notice carries the incremented counter
    /\ At(c, "running")
    /\ ~ RetryAllowed(copy[c].retries)
    /\ copy' = [copy EXCEPT ![c] = Processed(c, FALSE, TRUE)]
    /\ notices' = notices \cup {[retries |-> copy[c].retries + 1, max_retries |-> Maximum]}
    /\ UNCHANGED <<actor, message, delays, crashes>>

\* Any exception when no retry is left.
Exhausted(c) ==
    /\ At(c, "running")
    /\ ~ RetryAllowed(copy[c].retries)
    /\ copy' = [copy EXCEPT ![c] = Processed(c, FALSE, TRUE)]
    /\ notices' = IF Either("on_retry_exhausted") # None
                  THEN notices \cup {[retries |-> copy[c].retries, max_retries |-> Maximum]}
                  ELSE notices
    /\ UNCHANGED <<actor, message, delays, crashes>>

\* The worker acknowledges the message, or rejects it when it failed.
Settle(c) ==
    /\ At(c, "processed")
    /\ copy' = [copy EXCEPT ![c].at = "settled"]
    /\ UNCHANGED <<actor, message, delays, notices, crashes>>

\* The worker dies.  The counter it incremented was in its memory: the message
\* comes back as it was enqueued.
WorkerDies(c) ==
    /\ At(c, "running") \/ At(c, "processed")
    /\ crashes < MaxCrashes
    /\ crashes' = crashes + 1
    /\ copy' = [copy EXCEPT ![c] = Enqueued(copy[c].retries)]
    /\ UNCHANGED <<actor, message, delays, notices>>

JobStep(c) == Deliver(c) \/ Succeed(c) \/ FailDeclared(c) \/ Retry(c) \/ Exhausted(c) \/ Settle(c)

JobNext == Send \/ \E c \in Copies : JobStep(c) \/ WorkerDies(c)

JobSpec == JobInit /\ [][JobNext]_jobVars

\* Workers keep taking messages off the queue and settling them.
JobFairSpec == JobSpec /\ \A c \in Copies : WF_jobVars(JobStep(c))

-----------------------------------------------------------------------------

Copy == [retries : Nat, done : BOOLEAN, failed : BOOLEAN,
         at : {"queued", "running", "processed", "settled"}]

JobTypeOK ==
    /\ copy \in [Copies -> Copy \cup {None}]
    /\ crashes \in 0 .. MaxCrashes

\* Wherever a worker dies, the job is not forgotten: until a run of it has
\* succeeded, or was given up as failed, a copy of it is still to be settled.
NotLost ==
    Live # {} =>
    \/ \E c \in Live : copy[c].at # "settled"
    \/ \E c \in Live : copy[c].done \/ copy[c].failed

\* No copy is retried more often than the options allow, redelivery or not:
\* every counter below one that was reached was an accepted one.
RetriesBounded ==
    \A c \in Live : \A n \in 0 .. copy[c].retries :
        n < copy[c].retries =>
            IF Get(actor, "retry_when", None) # None THEN n \in actor["retry_when"]
            ELSE Maximum # None => n < Maximum

\* on_retry_exhausted hears of every failure that was not declared, with the
\* number of retries that really ran before it.
FailureReported ==
    /\ Either("on_retry_exhausted") # None /\ Throws = None /\ (\E c \in Live : copy[c].failed)
       => notices # {}
    /\ \A n \in notices : \E c \in Live : copy[c].retries = n.retries

\* "Retry n (1..3) waits 15 * 2**(n-1) + UniformInteger(0, 10*n-1) seconds", for
\* the actors of this application, unless the exception names its delay.
Documented(n) == {1000 * (15 * <<1, 2, 4>>[n] + uniform) : uniform \in 0 .. 10 * n - 1}
DocumentedSchedule ==
    \A c \in Live :
        /\ actor = [max_retries |-> 3, min_backoff |-> 15000]
        /\ message = << >>
        /\ copy[c].retries > 0
        /\ delays[c] # {ExplicitDelay}
        => delays[c] = Documented(copy[c].retries)

Limited == Get(actor, "retry_when", None) # None \/ Maximum # None

\* The job ends, with no more retries after it, unless they are unlimited: a
\* message that was sent is settled at last, and so is every retry of it.
JobEnds == <>[](Limited => \A c \in Live : copy[c].at = "settled")

\* The inductive invariant of NotLost: copies are numbered without gaps, and a
\* run that neither succeeded nor failed has the copy after it enqueued.
Succession ==
    /\ \E k \in 0 .. MaxCopies : Live = 1 .. k
    /\ \A c \in Live : /\ copy[c].at \in {"processed", "settled"}
                       /\ ~ copy[c].done
                       /\ ~ copy[c].failed
                       => c + 1 \in Live

JobInv == JobTypeOK /\ Succession /\ RetriesBounded

\* A retry was enqueued with a delay drawn for the retries before it, or with
\* the one its exception asked for.
DelaysDrawn ==
    /\ DOMAIN delays = Copies
    /\ \A c \in Live : copy[c].retries > 0
           => delays[c] \in {Backoffs(copy[c].retries - 1), {ExplicitDelay}}

ReportInv == DelaysDrawn /\ FailureReported

\* However often a copy is delivered again, a job is retried as its options and
\* the comments on them say: so often, so late, not forgotten, and with its failure reported.
RetriesAsDeclared == NotLost /\ RetriesBounded /\ DocumentedSchedule /\ FailureReported
=============================================================================
