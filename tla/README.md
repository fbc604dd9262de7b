# Delta Chat Core in TLA+

A formal model of Delta Chat Core (the C library under `src/src/`): TLA+
modules for the parts of the core where threads, servers and failures meet, TLC
configurations that check them on small instances, and TLAPS proofs, for every
value of the constants, of their invariants and of five refinements: what the
detailed modules implement is stated in short abstract ones.

| file | what it is |
|---|---|
| `X.tla` | a component: state, one action per operation, `Next`, `Spec`, fairness, properties, inductive invariant, and the mutants (see below) |
| `XProofs.tla` | theorems about `X`, checked with `tlapm XProofs.tla` |
| `SmtpService`, `Outbox`, `Mailbox`, `Handshake`, `VerifiedGroup` | what `SmtpIdle`, `SendMsg`, `ServerJobs`, `SecureJoin` and `Autocrypt` promise, without threads, jobs, mails and connections; each is instantiated there as `Promise` (in `SmtpIdle`, `Service`) |
| `MCX.tla`, `MCX_*.cfg` | instances for TLC: `tlc -config MCX_all.cfg MCX` |
| `PROJECT.json` | which lines each definition models, what each run checks, the hazards, findings, mutants and theorems |

A definition commented "Mutant" is not part of any specification. It is a
plausible bug in the definition below it; with it in place of that definition,
TLC finds the property it is listed with violated.

## 1. The system

The library has no threads of its own. The application drives it from (at
least) three:

```
   user thread(s)            IMAP thread                      SMTP thread
   ------------------        --------------------------       ------------------
   dc_send_msg() ...         loop:                            loop:
   dc_delete_msgs()            dc_perform_imap_jobs()           dc_perform_smtp_jobs()
   dc_markseen_msgs()          dc_perform_imap_fetch()          dc_perform_smtp_idle()
   dc_join_securejoin()        dc_perform_imap_idle()
   dc_configure(), imex
          |                        |                                |
          |   jobs table, msgs table, config (one SQLite connection for all)
          +------------------------+--------------------------------+
             dc_job_add() -> dc_interrupt_imap_idle() / dc_interrupt_smtp_idle()
```

Everything the core does over the network is a *job*: a row of the table
`jobs` with a thread, an action and parameters, performed by
`dc_job_perform()` of its thread, deleted when done, kept to be tried again
otherwise. Threads talk to each other through the database and through a
handful of flags in `dc_context_t`.

### Components

| component | state | operations | hard because of | correct if |
|---|---|---|---|---|
| SMTP thread (`dc_job.c`) | `smtpidle_condflag`, `perform_smtp_jobs_needed`, `smtpidle_suspend`, `smtpidle_in_idleing`, rows of `jobs` | perform jobs, idle, interrupt, suspend and resume | flags written by three threads; a failing job overwrites a flag; suspension by polling | no wakeup is lost; exclusive jobs run alone; nobody is stuck |
| IMAP thread (`dc_job.c`, `dc_imap.c`) | `perform_imap_jobs_needed`, `watch_condflag`, stream and its interrupt pipe, `should_reconnect` | jobs, fetch, real idle, fake idle, interrupt in three steps | interrupts between any two steps of the idle; network comes and goes | an interrupt that finds the thread waiting is served; none is left for a later stream |
| Sending (`dc_chat.c`, `dc_job.c`, `dc_msg.c`) | `msgs.state`, `msgs_mdns`, jobs with their number of tries | send, retry, give up, delete, receive receipts | lost replies, crashes between autocommits, deletion during sending | what a message's state says is true (delivered: accepted, or nobody to send it to); duplicates only when unavoidable |
| Server jobs (`dc_job.c`, `dc_imap.c`) | folder and UID in `msgs`, flags and folders on the server, `connected`/`etpan`/`should_reconnect` | upload, mark seen and move, delete | stream lost in the middle of a job, rows deleted meanwhile | receipts once, uploads once, server and database agree |
| Fetching (`dc_imap.c`) | `UIDVALIDITY:lastseenuid` | select folder, list, read, advance | other clients expunge, UIDVALIDITY changes, broken reads | nothing is skipped, nothing read twice without a reason |
| Receiving (`dc_receive_imf.c`) | `msgs`, `chats`, `chats_contacts`, `contacts` | transactions around a message, groups created and changed by mails | duplicates, reordering, groups not known yet, member lists rewritten row by row | every transaction is ended; a verified group has verified members only |
| Chats and groups (`dc_chat.c`, `dc_chatlist.c`) | `chats`, `chats_contacts`, timestamps | create, add and remove members, drafts, archive | member changes of the user and of mails crossing each other | no unverified member in a verified group (section 5 has an exception); what was promised to be encrypted is |
| Messages, contacts (`dc_msg.c`, `dc_contact.c`) | `msgs`, `contacts` with their origin | state changes, block, name by origin | state changes of several threads | states move forward, the origin only rises |
| Autocrypt and E2EE (`dc_apeerstate.c`, `dc_aheader.c`, `dc_e2ee.c`) | `acpeerstates`, keypairs | apply header, gossip, degrade, verify, choose keys | reordered messages, rows changed while a message is rendered | a row says what the newest mails said; a guaranteed encryption is kept |
| Secure join (`dc_securejoin.c`, `dc_token.c`, `dc_qr.c`) | `bob_expects`, `bobs_status`, `bobs_qr_scan`, `tokens` | QR code, handshake of two devices | lost, repeated, reordered handshake messages, a second join | verified only after the code was scanned and the inviter has verified Bob; the call returns, and a chat only on success |
| Ongoing processes, configure, imex (`dc_configure.c`, `dc_imex.c`) | `ongoing_running`, `shall_stop_ongoing` | start, stop, the exclusive jobs | flags tested and set without a lock | released when nobody runs, however calls overlap |
| Database (`dc_sqlite3.c`) | one connection shared by all threads | statements, transactions | transactions of two threads on one connection | every transaction is ended; atomic when no other one overlaps |
| SMTP and IMAP connections (`dc_smtp.c`, `dc_imap.c`, `dc_loginparam.c`) | handles of libetpan | connect, disconnect | used by a thread while another disconnects | no use of a freed stream |
| Text, MIME, containers, crypto, stock strings, log, command line, bindings, vendored libraries | - | conversions | - | see section 8 |

## 2. Plan

In the order in which the behaviour of the system depends on them; the first
eight are done.

1. `SmtpService`, `SmtpIdle`: the queue of jobs as a promise, and the flags
   that keep it. *Done: checked, proved, refinement proved.*
2. `ImapIdle`: the other thread, its two idles, its interrupt. *Done: checked,
   safety proved.*
3. `SendMsg`: a message from the user to the receipts; its promise `Outbox`.
   *Done: checked, safety and refinement proved.*
4. `ServerJobs`: upload, mark seen, delete; its promise `Mailbox`. *Done:
   checked, safety and refinement proved.*
5. `ImapFetch`: which messages are new. *Done: checked, safety proved.*
6. `SqlTx`: transactions of several threads on the one connection, and when
   they are atomic. *Done: checked, proved.*
7. `SecureJoin`: the handshake of two devices over mails that are lost, late
   or overtaken, and the flags of the ongoing process; its promise
   `Handshake`. *Done: checked, safety and refinement proved.*
8. `Autocrypt`: the peers, the verified group and the encryption of outgoing
   messages under reordered mails and three threads; its promise
   `VerifiedGroup`. *Done: checked, safety and refinement proved.*
9. `ReceiveImf` and `Groups`: the member lists of several devices whose changes
   cross; abstract specification: a set of members with a last writer. Contacts
   with their origin.
10. `Imex`: the backup as copy, close, reopen and add; `Configure`: the order
    of its attempts.
11. Pure operators over bounded inputs: smeared timestamps, `dc_param`,
    `dc_array`, quoting and footers of `dc_simplify.c`.

Of the proofs, what is left is a promise for `ImapFetch` (an inbox that is read
once), `SqlTx` (operations that are atomic unless they overlap) and `ImapIdle`.

## 3. The modules and the code

### SmtpService, SmtpIdle

`SmtpIdle` has one variable per flag of `dc_context_t`, the rows of the table
(`jobs`), the result of the running SELECT (`cursor`: the query sorts, so it is
complete when the first row comes), and a control state for the SMTP thread,
for the IMAP thread around an exclusive job, and for each thread inside
`dc_job_add()`. All flags are guarded by `smtpidle_condmutex`; a critical
section is one action. `dc_perform_smtp_idle()` releases the mutex only in
`pthread_cond_timedwait()`, so it is cut there: `SkipIdle`, `EnterIdle`,
`WakeUp`, `IdleTimeout`. Its outer loop, `while (smtpidle_suspend)`, can go
round without waiting when the flag is set: the control state `spin`, in which
`CondMutexFree` is false for everyone else.

`SmtpService` is the promise: jobs are submitted at any time, a pass takes the
rows it finds, a row leaves only after a pass took it up, and an exclusive
section never overlaps a pass. `SmtpIdle` implements it (`ImplementsService`)
under the mapping `rows <- jobs`, `taken <- added \ unseen`,
`phase <- "resting"` while the thread is in its idle, `exclusive <- imap =
"exclusive"`.

### ImapIdle

The handle is four numbers the code tests: `connected` (the parameters are
known), `stream` (none, open, or set up for IDLE), `pipe` (bytes written to
wake the idle) and `should_reconnect`. `dc_interrupt_imap_idle()` is three
steps of the caller, `SetNeeded`, `WritePipe`, `SignalWatch`, between which the
IMAP thread can be anywhere. `fake_idle()` is `FakeTop` (up to its wait),
`FakeWoken`, `FakeTimeout` and `FakeFetch`. The network (`online`) is the
environment: connecting succeeds only when it is there. The set-up of the IDLE
may fail and the server may refuse the command even then (`SetupIdle`,
`StartCommand`); both end in `fake_idle()`. A job that `dc_job_add()`
inserted without the interrupt is not in the model: there is no such caller.

### SendMsg

Per message: its row (`chat`, `trash` after `dc_delete_msgs()`, `gone`), its
state, its receipts and its jobs. `dc_send_msg_raw()` is two autocommits,
`InsertMsg` and `AddSendJob`. The handler of `DC_JOB_SEND_MSG_TO_SMTP` is cut
where another thread can come in: load, send, record, delete the job.
The chat is a group: its `members` change, by the user or by mails, while a
message waits, and may be `Self` alone. `to` is what `recipients_addr` comes to
when the job loads the message: somebody, or nobody, when the message is in the
trash, or nobody else is in the chat and the message is not the `notice` of a
removal. Then nothing is sent and the job goes on as delivered (`LoadMsg`,
`dc_job.c:332`); the history `alone` keeps such messages. `ExtraUpload` is the
absence of `DC_NO_EXTRA_IMAP_UPLOAD`; with it a sent message is uploaded or, as
a message of a handshake, not. The retries are modelled as the code computes
them, with `last_online_state` never assigned.
A receipt (`dc_mdn_from_ext()`) is a SELECT and an UPDATE. `copies`,
`unrecorded` and `torn` are history variables. What the SMTP server is told is
the number of copies it accepted; the failure of a send, before or after the
acceptance, is nondeterministic.

`Outbox` is the promise, per message: what the user sees (`shown`), how often
the server accepted it (`copies`), how many of these acceptances went unnoticed
(`excuse`), and whether an acceptance, or a look into a chat without other
members, is still to be shown (`fresh`). It is sent only when all acceptances
so far went unnoticed, shown as failed only then, as read only after an
acceptance, and as delivered once for each thing that made it `fresh` - also
over a message already read, which loses its second checkmark then.
`SendMsg` implements it (`ImplementsOutbox`) under `shown <- Shown`, which is
the state of a row in its chat, "unsent" before and "removed" after,
`excuse <- unrecorded`, `others <- members \ {Self}`.

### ServerJobs

The database (`row`, `dbFolder`, `jobs`), the server (`copies`, `folder`,
`seen`, `mdnSent`) and the handle. `dc_imap_is_connected()` answers for the
parameters, not for the stream: `connected = 1` and `stream = "none"` or
`"dead"` (broken without notice) is a normal state. A command on the server
either happens and is answered, happens and its reply is lost, or does not
happen; the step after it - the row, the job - is an action of its own, so a
deletion by the user, or a crash, comes in between. `PermanentFlags` is what
the server says of a folder: nothing, the standard flags, or `$MDNSent` too. It
may refuse to store a flag, which the code takes for a success
(`MarkSeenRefused`, a fault); `refused` remembers for which messages.

`Mailbox` is the promise: a copy is deleted only of a message the user deleted,
one is marked as seen only if it was read, uploaded only if it was sent; an
upload is repeated only after a fault, a receipt of a message whose flags the
server keeps never.
`ServerJobs` implements it (`ImplementsMailbox`) under `asked <- requested`,
`dropped <-` the messages whose row is not in its chat, `receipts <- mdnJobs`.
A fault and the command it hits can be one step, hence `Answer`.

### ImapFetch

One folder. The server gives UIDs, other clients remove messages, and a change
of UIDVALIDITY renumbers what is there. `fetch_from_single_folder()` is cut
after the comparison of UIDVALIDITY, after the list and after each message; the
end of the list writes `lastseenuid`. Three histories say what was never going
to be listed, computed from the folder (`LeftOut`) and not from the number the
code starts with (`StartWith`): `old` are the messages that were there at the
first look, passed over on purpose; `gaps` the newer ones that the code loses, at
a look at an empty folder and at a changed UIDVALIDITY (section 5). A message
counts as done when it was received or given up, and in no other way.

### SqlTx

A thread runs an operation: the sequence of its statements that write (`W`) or
delimit a transaction (`B`, `C`, `R`), one sequence for each way through the
function. `Begin`, `Write`, `Commit` and `Rollback` are the four functions of
`dc_sqlite3.c` on the handle: `open` is its transaction, `pending` what that
holds. BEGIN in a transaction fails and the thread goes on, so `within` (what
the thread believes) and `open` (what the handle does) come apart. `kept` is
what the same operations would leave if each thread had a handle of its own;
`mixed` are the operations that overlapped a transaction of another thread.
`AsOnItsOwn` compares the two for all others, `NoTransactionLeftOpen` says that
whoever opened a transaction still has its end before it.

### SecureJoin

Both sides of one handshake with each of several inviters. `Join` to
`FreeOngoing` are the steps of `dc_join_securejoin()` in a thread of the user,
cut at every access to the fields it shares with the IMAP thread; `Receive`,
the four actions of `dc_handle_securejoin_handshake()` on Bob's side and
`FileMail` are those of the IMAP thread; `hand` is the copy of the scanned
fingerprint it works with after the mutex is unlocked. `dc_alloc_ongoing()` is
two steps, `AllocTest` and `AllocSet`. The answers of the inviter are one step
each. Mails are counted by kind, inviter and the key they are signed with, in
no order. `disturbed` remembers for each call whether anything came in between
(another call, a stop, a loss, an old mail, a new key): without it the
handshake has to complete, with it it may fail but not verify wrongly.
`NotMarked` is the failure of `mark_peer_as_verified()`, a disturbance too: the
handler returns without ending the join, and the call waits until it is stopped.

`Handshake` is the promise: an inviter verifies Bob after Bob has scanned the
code, Bob verifies the inviter after that, the group comes after both - and
`others`, the case where the code takes a mail about somebody else for the
confirmation, is part of the promise because it is part of the code. The
mapping reads the sets off the arrays (`known <- {a : bobVerified[a] = 1}`, and
so on).

### Autocrypt

The rows of `acpeerstates`, the rows of `chats_contacts` of one group, and one
outgoing message. A mail has an Autocrypt header or not, and a date or not:
`Dates` are the values of `message_time`, 0 and less for a `Date:` that is
missing or invalid. It is applied to the row of its sender (`UpdateSender`: the
header, or the degradation without one; nothing without a date), then its
gossip address by address (`UpdateGossip`, dated or not), then the group looks
at it: `StartCheck` with one step for each recipient, and `Recreate` with `Fill`
row by row. `CheckGossiped` makes a gossiped key the verified one if there is
one - and lets the member pass if there is none, because nobody looks at the
result of `dc_apeerstate_set_verified()`. `Verify` is the end of a
handshake. In between, the user adds, removes and sends (`SendMsg` decides
whether encryption is guaranteed), and the SMTP thread loads the recipients
(`LoadMsg`), takes their keys one by one (`EncryptTo`), may fail to encrypt
(`EncryptFails`: no own key, or `dc_pgp_pk_encrypt()`; `broken`), and refuses,
sends or tries again. `headers`, `plains` and `gossips` remember what was
received, `certified` which keys were verified.

`VerifiedGroup` is the promise: keys that were verified stay on record, a group
gets its type when it is created and never changes it, a verified one takes
only members with a key on record or `strays` - those that were gossiped in a
mail without a valid date -, and a message whose encryption was guaranteed
leaves encrypted to every recipient or not at all, in a verified group to keys
on record. One of a verified group without that guarantee leaves in the clear
only if it goes to a stray or the encryption itself has failed.
`Autocrypt` implements it (`ImplementsVerifiedGroup`) with
`type <- group` and `outgoing <- Outgoing`: loading, rendering and retrying are
all "waiting", and the keys are those of the message as it left. The rewriting
of a member list is one `Remove` and an `Add` for each row.

## 4. The runs

TLC visits every state of the instances; bounds are constants in guards. Two
instances are too large for that and have a state constraint besides. `send_safety`
has `FewDisturbances`: one message meets all lost replies, crashes and changes of
members the bounds allow, two messages together meet one of them, without uploads.
`autocrypt` has `FewHeaders`: no more than two headers, counting those with which
contacts were met before, and mails of the group prefer encryption; and
`MessageNotDone`, which loses nothing: what follows a message that
is done also follows from the state without one. Symmetry is used where only
invariants and the steps of a refinement are checked, no liveness
(`send_safety`, `sql_tx`, `autocrypt`). Four invariants are implied by a
refinement and have no place in a run any more: `DeliveredWasSent`,
`OneUpload`, `VerifiedBothWays`, `SentAsPromised`; they are theorems still.

| run | instance | checks |
|---|---|---|
| `smtp_idle` | 3 jobs, 2 callers, 2 exclusive jobs | types, `ExclusiveJobIsAlone`, `NoLostWakeup`, `ImplementsService`; `TriedUnlessSpinning`: a job starves only by the spinning idle; `SuspensionEnds` |
| `imap_idle` | 2 jobs, 2 callers, network changes twice, server with IDLE | types, `IdleStartsWithNothingPending`, `PipeBelongsToStream`; `WaitIsInterruptible` for the real and the fake idle; `AddedJobIsTried` with the timeouts, unless the thread stays in a fake idle for ever |
| `send_safety` | 2 messages, a group of Self and up to 2 others that changes once, 2 lost replies, 1 crash; `FewDisturbances` | types, `PendingHasJob`, `DuplicatesAreExplained`, `ReadByMajority`, `ImplementsOutbox` |
| `send_live` | 2 messages, 1 recipient, 1 network change | `JobIsDone` |
| `server_jobs` | 1 incoming, 1 outgoing message, a server with `$MDNSent`, 2 faults | types, `OneReceipt`, `LocationIsKnown`, `DeletedFromServer`, `ReadIsReported`, `JobIsDone`, `ImplementsMailbox` |
| `imap_fetch` | 3 messages, 1 of them there at the first look, 2 values of UIDVALIDITY, 1 expunge, 1 fault | types, `NothingSkipped`, `ReadAgainForAReason`, `FetchedSomeday` |
| `sql_tx` | 4 threads, 3 operations, 1 crash | types, `NoTransactionLeftOpen`, `AsOnItsOwn` |
| `secure_join` | 2 inviters (one with a group), 2 threads, 2 calls, 1 trouble | types, `JoinedIsVerified`, `NothingLeftBehind`, `HandshakeCompletes`, `ImplementsHandshake` |
| `autocrypt` | 2 contacts, 2 keys, 2 mails or messages sent, 2 different dates and none; `FewHeaders` | types, `NewestMailCounts`, `MembersAreVerified`, `ImplementsVerifiedGroup` |
| `smtp_interrupt_promise` | 2 jobs, 1 caller, 1 exclusive job | divergence, see section 5 |
| `send_giveup` | 1 message, a server that rejects | divergence |
| `join_failed` | as `secure_join` | divergence |

Why the bounds are enough. *Jobs*: a job matters relative to the SELECT before
or after which it is inserted and to the job that fails meanwhile; two suffice
for that, the third is there for a job between the two exclusive jobs.
*Callers*: two are the smallest number whose interrupt steps interleave with
each other. *Exclusive jobs*: the second one starts from the flags the first
left. *Faults*: with two, the second hits the recovery from the first. (A server
without `$MDNSent` or without PERMANENTFLAGS is a smaller instance of the same
module, not a run of its own; the theorems are about all three.)
*Recipients*: two is the first group, where half of the members is not one;
with the members empty, one or two, and one change, a group is emptied or filled
between the send and the job, and between two receipts.
*UIDVALIDITY*: one change; a second one starts from a state the first one
reaches. *Operations* of `SqlTx`: two that overlap and one that runs into what
they leave. *Calls and troubles* of `SecureJoin`: two calls overlap or follow
each other; a trouble is one more thing in the way of either. *Mails* of
`Autocrypt`: two are the smallest number that can be out of order, and the
first can build the group the second changes; two contacts are a sender and
another member. `Dates` has two that differ and 0, which stands for every invalid one.
`Init` starts with any of the contacts met and verified before,
so that one mail is enough to get to a verified group. Safety is proved without these bounds (section 6).

Deadlock is checked in the runs of `SmtpIdle`, `ImapIdle`, `ServerJobs` and
`ImapFetch`. The others may stop: every message is sent and read (`SendMsg`),
all operations have returned (`SqlTx`), all calls and mails are through
(`SecureJoin`), a message is done (`Autocrypt`, by its constraint). That
nobody hangs in `SecureJoin` is part of `HandshakeCompletes`.

### Fairness

- Both threads of the library are driven by loops in the application
  (`src/cmdline/main.c`), hence weak fairness of `SmtpStep`, `ImapStep`.
- A thread inside `dc_job_add()` or `dc_send_msg_raw()` returns: weak fairness
  of its next step; none for starting a call.
- The timeouts of the idles are *not* fair in `smtp_idle` and in
  `WaitIsInterruptible` of `imap_idle`: a job that is only found because the
  minute is over does not count as woken. `AddedJobIsTried` assumes the timeouts
  explicitly, and that the thread leaves the fake idle again and again; nothing
  is assumed of the network. The finding of
  `smtp_interrupt_promise` stands even with the timeouts.
- `secure_join`: the threads go on (`CallStep`, `HandStep`), and a mail that is
  not lost arrives some day (`Receive`, `AnswerRequest`, `AnswerWithAuth`).
  Losses are bounded by `MaxTroubles`, and a call that meets one counts as
  disturbed.
- Strong fairness is used for the world outside only: a server that is tried
  again and again can be connected to some day (`ConnectForJob("open")`,
  `SetupHandle("open")`, `StartFetch(1)`), and a message that is not rejected
  gets through (`Accepted`). Without it no client can promise anything.
- None for users, other clients, faults, crashes and network changes.

## 5. Where code and documentation disagree

Three have a run of their own, expected to end in a counterexample;
`PROJECT.json` quotes the lines.

1. `smtp_interrupt_promise`, `InterruptCausesJobs`. An interrupt during a suspension leaves
   `smtpidle_condflag` at 1; the idle then circles between its two loops with
   the mutex held, and the resumption needs that mutex.
2. `send_giveup`, `RejectedIsGivenUp`. `last_online_state == is_online;` compares instead of
   assigning, so no retry is ever counted.
3. `join_failed`, `FailedReturnsZero`. `dc_join_securejoin()` decides by `bobs_status`, which a call
   that fails early has not reset: it returns a chat because the call before it
   was successful.

Others are in the models as the code has them, without a run: `fake_idle()`
clears `do_fake_idle` only inside its wait loop, so an interrupt before it is
consumed without effect, and a job can starve as long as the thread stays in
the fake idle (`FakeTop`, `dc_imap.c:950`; `AddedJobIsTried` excludes this); a failed first connect
frees the parameters that the polling of `fake_idle()` would need
(`SetupHandle`, `dc_imap.c:1078`); `dc_imap_delete_msg()` takes a lost stream
for a success, so that the row goes and the message is downloaded again
(`DeleteFails`, `dc_imap.c:1717`); after a change of UIDVALIDITY only the
newest message is fetched, and not even this one if its UID is 1, although the
code means "to avoid gaps" (`StartWith`, `LeftOut`, `dc_imap.c:796`); without
PERMANENTFLAGS no receipt is ever sent, although RFC 3501 has all flags be
permanent then (`MdnJustSet`, `dc_imap.c:1529`), and a refused flag is taken for
a set one (`MarkSeenRefused`, `dc_imap.c:1489`); BEGIN IMMEDIATE does
not keep other threads from writing, as its comment says, because they share
the connection (`Begin`, `dc_sqlite3.c:673`); the result of
`dc_alloc_ongoing()` is the opposite of what its comment says
(`dc_configure.c:782`); a `vg-member-added` about somebody else verifies the
inviter (`OtherAdded`, `dc_securejoin.c:735`); a key that cannot be marked as
verified leaves the joining call waiting (`NotMarked`, `dc_securejoin.c:735`).

Three are about the verified group, in which "only secure-verified members are
allowd" and encryption is always enabled (`dc_chat.c:1510`). A mail without a valid `Date:` gossips an address whose row
exists already: `gossipped_addr` has it, the row gets no gossip key, since 0 is
not newer than 0, `dc_apeerstate_set_verified()` fails, and
`dc_receive_imf.c:646` sets `is_verified` all the same: a member without a
verified key enters the group (`CheckGossiped`, `dc_e2ee.c:804` and `:834`).
For that member there is no key, so the next message leaves in the clear:
`dc_job.c:341` asks only for the guarantee given when the message was sent
(`Accepted`, `Refuse`). And a message of a verified group leaves in the clear
when the own key cannot be loaded or the encryption fails (`EncryptFails`,
`dc_e2ee.c:349`, `:383`, `:463`). `MembersAreVerified` and `VerifiedGroup` name
these cases as their only exceptions; they have no run of their own.

Met on the way and visible in the models, without a run of their own:
`Delivered` resets a message already read to delivered when a receipt was
faster (`dc_job.c:375`; `Outbox` allows it once for each acceptance); a message
deleted before it was sent, or whose chat has nobody else in it when its job
comes, is shown as delivered without having been sent (`dc_job.c:332`); a crash
between `InsertMsg` and `AddSendJob` leaves a
pending message without a job (`torn` in `PendingHasJob`); a mark-seen job is
dropped when there is no stream (`MarkSeenNothing`); what arrives in a
folder that was empty at the first look, up to the next look, is never read
(`EmptyFolder`, `gaps`); `lastseenuid+1:*` lists the largest UID even when it is smaller
(`List`), so that a message may be read again after an expunge.

## 6. What is proved

For every value of the constants that satisfies the named assumptions (sets of
messages, jobs and callers are arbitrary; only `Recipients` has to be finite,
because receipts and members are counted). Every invariant of a passing run is proved, and
so is every refinement. Each proof module shows `Init => IInv`,
`IInv /\ [Next]_vars => IInv'`, one lemma per group of actions, and derives the
theorems from `IInv`. A refinement has lemmas of its own: which actions map to
a stutter (`NothingShown`, `NothingAsked`, `NothingPromised`), then one lemma
per actor, naming the action of the abstract module each step is. `IInv` can be
given to TLC as an invariant of the same instances; the runs list its parts that
say something of the system.

| module | theorem | property | why the property is not inductive by itself |
|---|---|---|---|
| `SmtpIdleProofs` | `TypeCorrect` | `TypeOK` | |
| | `ExclusiveAlone` | `ExclusiveJobIsAlone` | needs `FlagsMatchThreads`: `smtpidle_in_idleing` is true only in the idle, and the idle is not left while suspended |
| | `WakeupsKept` | `NoLostWakeup` | needs `MissedJobIsSignalled`: from the SELECT on, not only in the wait, a job it missed is signalled by `condflag` alone - `needed` may be overwritten |
| | `Implements` | `ImplementsService` | every action is a step of `SmtpService` or a stutter, given `IInv` |
| `ImapIdleProofs` | `TypeCorrect`, `NothingPendingAtIdle`, `PipeIsOfStream` | `TypeOK`, `IdleStartsWithNothingPending`, `PipeBelongsToStream` | inductive together with types and `UnseenIsInTable` |
| `SendMsgProofs` | `TypeCorrect`, `PendingIsServed`, `CheckmarkIsTrue`, `AtMostOnceUnlessUnrecorded`, `ReadIsMajority`, `FailureIsTrue` | `TypeOK`, `PendingHasJob`, `DeliveredWasSent`, `DuplicatesAreExplained`, `ReadByMajority`, `FailedWasNotSent` | need what the thread knows of the job at hand (`JobAtHand`), that what is still to be sent was not accepted unless unrecorded (`StillToSend`), and what a receipt at hand is about (`ReceiptAtHand`); `ReadByMajority` is an action property |
| | `Implements` | `ImplementsOutbox` | needs besides that the acceptance being recorded is not counted as unrecorded yet (`UnrecordedWasSent`): a crash may count it once |
| | `TriesAreNotCounted`, `GivingUpIsDead` | `NoTryIsCounted`, `RetriesNeverGiveUp` (an action property) | the finding of `send_giveup` for every `JOB_RETRIES`: no step writes `last_online_state`, so the branch that gives up is dead |
| `ServerJobsProofs` | `TypeCorrect`, `PlaceIsKnown`, `ReceiptIsSentOnce`, `UploadIsDoneOnce`, `DeletedEverywhere`, `ReadEverywhere` | `TypeOK`, `LocationIsKnown`, `OneReceipt`, `OneUpload`, `DeletedFromServer`, `ReadIsReported` | need, for each job, what holds while it is still `ToDo` and between its command and its record |
| | `SeenComesFirst`, `Implements` | `SeenFirst`, `ImplementsMailbox` | the job at hand belongs to a request (`RowsInv`), and what a receipt is about is \Seen or was refused, because $MDNSent is set after it |
| `ImapFetchProofs` | `TypeCorrect`, `BelowLastSeenIsDone` | `TypeOK`, `NothingSkipped` | needs `ListInv`: what lies above `lastseenuid` is in the list, read, or newer than the whole list |
| | `ReadAgainOnlyForAReason` | `ReadAgainForAReason` | needs `DownloadsInv`: the downloads of a message, and those the running and the next fetch still owe it (`Owed`), never exceed the reasons; it is owed one while it is listed, and one if it lies above `lastseenuid` or is the largest that is left below |
| `SqlTxProofs` | `TypeCorrect`, `TransactionsEnd`, `AtomicWhenNotMixed` | `TypeOK`, `NoTransactionLeftOpen`, `AsOnItsOwn` | needs that an operation overlaps nobody's transaction or is in `mixed` (`Overlaps`), that a thread inside its own transaction still has its end to come (`SectionEnds`), and that for one not in `mixed` handle and thread agree (`OwnTransaction`) |
| `SecureJoinProofs` | `TypeCorrect`, `BothSidesVerify`, `ProcessIsReleased` | `TypeOK`, `VerifiedBothWays`, `NothingLeftBehind` | needs what a mail under way, and the copied fingerprint, say about the inviter (`MailsTell`), and that the process runs for a call that got it (`RunsForACall`) |
| | `JoinIsVerified` | `JoinedIsVerified` | needs `UndisturbedIsAlone`: while nothing came in between, no other call runs, the scanned code and the copy of it in the IMAP thread are this call's, and `bobs_status` once reset is set by its own handshake only |
| | `Implements` | `ImplementsHandshake` | needs `ScannedFirst`: a call that sends has scanned, an answer under way is to somebody who has, and a confirmation in the hand is from an inviter that knows Bob |
| `AutocryptProofs` | `TypeCorrect`, `RowsAreNewest`, `OnlyVerifiedMembers`, `PromiseIsKept` | `TypeOK`, `NewestMailCounts`, `MembersAreVerified`, `SentAsPromised` | need what the loops over the recipients have established when they are halfway (`MailInv`, `RenderInv`), that verified keys are on record and a gossip has left a key or was undated (`PeersInv`, `MailInv`), and that a group never turns into a verified one (`GroupInv`) |
| | `Implements` | `ImplementsVerifiedGroup` | follows from the same invariants, step by step |

What the proofs add to the runs. `JoinedIsVerified` rests on
`UndisturbedIsAlone`, that is, on there being no second call: the code does not
keep two calls of `dc_join_securejoin()` apart. `ImplementsOutbox` needs
`UnrecordedWasSent` for one step only, the crash between an acceptance and its
record. `ReadAgainForAReason` needs a budget, not a state of affairs: downloads
plus what is still owed never exceed the reasons there were. And
`GivingUpIsDead` makes of the finding on one instance a fact about every one.

Only model-checked: the liveness properties - `TriedUnlessSpinning`,
`SuspensionEnds`, `WaitIsInterruptible`, `AddedJobIsTried`, `JobIsDone` (of
`SendMsg` and of `ServerJobs`), `FetchedSomeday`, `HandshakeCompletes` - because
fairness and `ENABLED` are out of reach of the prover; and the divergences,
which are counterexamples. No module declares a RECURSIVE operator, and nothing
here rests on induction over data.

## 7. Abstractions

- A message, a job, a contact is a model value; texts, addresses and MIME are
  left out. A message that is the single part with a Message-ID is the one
  modelled; the others skip the server jobs.
- SQLite statements are atomic. The other modules take a transaction as one
  step; `SqlTx` shows when that is right, namely when no transaction of another
  thread overlaps. It leaves out errors of SQLite, a ROLLBACK that aborts the
  SELECT of another thread, and reads of what is not committed.
- `SecureJoin`: tokens are not distinguished, as `dc_token_exists()` returns a
  nonzero number for every token; an inviter may take any time; the last mail
  of a group (`vg-member-added-received`) only raises an event and is left out.
- `SendMsg`: one group; the chat with oneself, which is sent to oneself, is
  left out.
- `Autocrypt`: one group and one outgoing message at a time; left out are
  `last_seen`, the degrade events, invalid keys, the
  user's own membership and ad-hoc groups. `e2ee_enabled` and
  `last_msg_in_chat_encrypted()` are nondeterministic.
- A reload of a row that vanished meanwhile is modelled where the code tests
  for it (`CannotLoad`, `NoRow`, `RowIsGone`).
- Time is not modelled: timeouts are nondeterministic, the back-off times of
  jobs are zero, so a pass may select any row.
- Data races on plain `int` flags are modelled as atomic reads and writes. The
  freeing of a stream while another thread writes to its pipe is not modelled.

## 8. Not modelled

Waiting for the steps of the plan: chats other than groups and the member lists
of several devices, contacts, configure, import and export. Out of scope: the
SMTP connection (a client of libetpan without state of its own), the MIME
parser and factory, HTML and quoted text, uuencode, the SAX parser, stock
strings and log, OpenPGP and OpenSSL, the chat list (a SELECT and a view on it),
the command line client, the Python stub, and the vendored libetpan, netpgp and
SQLite, which appear only as the external actions of the models.
