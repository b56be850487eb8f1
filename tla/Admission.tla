----------------------------- MODULE Admission -----------------------------
(***************************************************************************)
(* What an organisation may ask for: uploads and queries per minute, and   *)
(* documents and bytes in all (consume_rate and queue_document of          *)
(* services/document_service.py, query_admission of api/documents.py,      *)
(* save_stream of providers/storage/local.py).  One organisation.          *)
(*                                                                         *)
(* Every check is made under the organisation's row lock.  An upload keeps *)
(* the lock while the client's bytes stream in; if it fails, its use of    *)
(* the allowance is rolled back with it.  Workers delete documents without *)
(* that lock.  The limit on pending jobs is PendingBounded of Ingestion.   *)
(*                                                                         *)
(* A definition whose comment begins with "Variant" is the next definition *)
(* with a slip in it: the runs show which property notices the slip.       *)
(***************************************************************************)
EXTENDS Naturals, FiniteSets

CONSTANTS
    Uploads,       \* upload requests in flight at the same time
    Files,         \* documents, each uploaded once
    MaxFiles,      \* settings.max_documents_per_org
    MaxStorage,    \* settings.max_storage_bytes_per_org
    MaxUpload,     \* settings.max_upload_bytes
    Allowance,     \* settings.uploads_per_minute, queries_per_minute
    Minute,        \* ticks of a minute
    LastTick       \* bound: where time ends

Kinds == {"upload", "query"}

ASSUME AdmissionAssumption ==
    /\ IsFiniteSet(Files)
    /\ {MaxFiles, MaxStorage, MaxUpload, LastTick} \subseteq Nat
    /\ Allowance \in Nat \ {0} /\ Minute \in Nat \ {0}

VARIABLES
    now,      \* the clock
    window,   \* organization_rate_limits: window_start and requests
    granted,  \* history: how many requests were granted at each tick
    upload,   \* how far each upload is
    stored    \* documents: the size of each file, 0 if there is no row

admissionVars == <<now, window, granted, upload, stored>>

NoUpload == [pc |-> "idle", at |-> 0, allowed |-> 0, got |-> 0]

AdmissionInit ==
    /\ now = 0
    /\ window = [k \in Kinds |-> [start |-> 0, requests |-> 0]]
    /\ granted = [k \in Kinds |-> [t \in 0..LastTick |-> 0]]
    /\ upload = [u \in Uploads |-> NoUpload]
    /\ stored = [d \in Files |-> 0]
-----------------------------------------------------------------------------
\* The sum of f[x] over S: how many blocks there are if each x has f[x] of them.
Total(f, S) == Cardinality(UNION {{x} \X (1..f[x]) : x \in S})

Counted == {d \in Files : stored[d] > 0}
Bytes == Total(stored, Files)

\* lock_organization does not wait: nobody is between admission and commit.
LockFree == \A u \in Uploads : upload[u].pc = "idle"

\* Before the first request there is no row.
NewWindow(k, t) == window[k].requests = 0 \/ t >= window[k].start + Minute

\* Variant: the minute that has passed is counted anew but still begins where it did.
WindowAtUnmoved(k, t) ==
    IF NewWindow(k, t)
    THEN [start |-> IF window[k].requests = 0 THEN t ELSE window[k].start, requests |-> 0]
    ELSE window[k]

\* The window that a request at time t falls into.
WindowAt(k, t) == IF NewWindow(k, t) THEN [start |-> t, requests |-> 0] ELSE window[k]

\* Not refused by consume_rate.
WithinRate(k) == WindowAt(k, now).requests < Allowance

\* A request that was admitted at time `at` commits.
Grant(k, at) ==
    /\ window' = [window EXCEPT ![k] = [WindowAt(k, at) EXCEPT !.requests = @ + 1]]
    /\ granted' = [granted EXCEPT ![k][at] = @ + 1]
-----------------------------------------------------------------------------
\* query_admission, or a reindex request (which is counted with the uploads).
Ask(k) ==
    /\ LockFree
    /\ WithinRate(k)
    /\ Grant(k, now)
    /\ UNCHANGED <<now, upload, stored>>

\* Variant: only the size of a single upload is limited.
AllowedBytesPerFile == MaxUpload

AllowedBytes == IF MaxUpload < MaxStorage - Bytes THEN MaxUpload ELSE MaxStorage - Bytes

\* queue_document up to save_stream.
Admit(u) ==
    /\ upload[u].pc = "idle"
    /\ LockFree
    /\ WithinRate("upload")
    /\ Cardinality(Counted) < MaxFiles /\ Bytes < MaxStorage
    /\ upload' = [upload EXCEPT ![u] =
           [pc |-> "streaming", at |-> now, allowed |-> AllowedBytes, got |-> 0]]
    /\ UNCHANGED <<now, window, granted, stored>>

\* One block of the stream; one too many ends the upload.
Receive(u) ==
    /\ upload[u].pc = "streaming"
    /\ upload[u].got < upload[u].allowed
    /\ upload' = [upload EXCEPT ![u].got = @ + 1]
    /\ UNCHANGED <<now, window, granted, stored>>

\* The rest of queue_document; `now` was read on admission.
CommitUpload(u, d) ==
    /\ upload[u].pc = "streaming"
    /\ upload[u].got > 0
    /\ stored[d] = 0
    /\ stored' = [stored EXCEPT ![d] = upload[u].got]
    /\ Grant("upload", upload[u].at)
    /\ upload' = [upload EXCEPT ![u] = NoUpload]
    /\ UNCHANGED now

\* Too large, empty, broken off, or the process dies: everything is rolled back.
FailUpload(u) ==
    /\ upload[u].pc # "idle"
    /\ upload' = [upload EXCEPT ![u] = NoUpload]
    /\ UNCHANGED <<now, window, granted, stored>>

\* A worker's deletion commits.
RemoveRow(d) ==
    /\ stored[d] > 0
    /\ stored' = [stored EXCEPT ![d] = 0]
    /\ UNCHANGED <<now, window, granted, upload>>

Tick ==
    /\ now < LastTick
    /\ now' = now + 1
    /\ UNCHANGED <<window, granted, upload, stored>>

AdmissionNext ==
    \/ \E k \in Kinds : Ask(k)
    \/ Tick
    \/ \E u \in Uploads : Admit(u) \/ Receive(u) \/ FailUpload(u)
    \/ \E u \in Uploads, d \in Files : CommitUpload(u, d)
    \/ \E d \in Files : RemoveRow(d)

AdmissionSpec == AdmissionInit /\ [][AdmissionNext]_admissionVars
-----------------------------------------------------------------------------
(* Properties *)

GrantedIn(k, ticks) == Total(granted[k], ticks \cap (0..LastTick))

\* The window restarts with the first request after a minute, so two of them may
\* meet within one minute: the requests granted in any minute are nevertheless
\* fewer than two allowances, also when uploads commit long after they were
\* admitted and others fail (document_service.py:39).
RateBounded ==
    \A k \in Kinds, t \in 0..LastTick :
        GrantedIn(k, t..(t + Minute - 1)) < 2 * Allowance

\* An organisation never has more documents and bytes than it may, although the
\* size of an upload is known only when it is over, and its room is measured
\* before it begins (document_service.py:65).
QuotaKept == Cardinality(Counted) <= MaxFiles /\ Bytes <= MaxStorage
-----------------------------------------------------------------------------
(* The inductive invariant behind them *)

AdmissionTypeOK ==
    /\ now \in 0..LastTick
    /\ window \in [Kinds -> [start : 0..LastTick, requests : Nat]]
    /\ granted \in [Kinds -> [0..LastTick -> Nat]]
    /\ upload \in [Uploads -> [pc : {"idle", "streaming"}, at : 0..LastTick,
                               allowed : 0..MaxUpload, got : 0..MaxUpload]]
    /\ stored \in [Files -> 0..MaxUpload]

Streaming(u) == upload[u].pc = "streaming"

\* Whoever has the lock is alone, and what it was admitted with still holds.
LockInv ==
    \A u \in Uploads : Streaming(u) =>
        /\ \A v \in Uploads : Streaming(v) => v = u
        /\ upload[u].at <= now
        /\ WindowAt("upload", upload[u].at).requests < Allowance
        /\ upload[u].got <= upload[u].allowed /\ upload[u].allowed + Bytes <= MaxStorage
        /\ Cardinality(Counted) < MaxFiles

\* Requests of kind k are granted in the order of time, also by a late commit.
InOrder(k) ==
    \A t \in 0..LastTick : granted[k][t] > 0 =>
        /\ t <= now
        /\ k = "upload" => \A u \in Uploads : Streaming(u) => t <= upload[u].at

Before(s) == {t \in 0..LastTick : t < s /\ s < t + Minute}
Since(s) == {t \in 0..LastTick : s <= t}

\* A window w counts every grant since its first, and what was granted within a
\* minute before it does not include the first grant of the window before.
Fits(w, grants) ==
    IF w.requests = 0
    THEN \A t \in 0..LastTick : grants[t] = 0
    ELSE /\ grants[w.start] > 0
         /\ \A t \in 0..LastTick : grants[t] > 0 => t < w.start + Minute
         /\ Total(grants, Since(w.start)) = w.requests
         /\ w.requests <= Allowance
         /\ Total(grants, Before(w.start)) < Allowance

RateInv == \A k \in Kinds : InOrder(k) /\ Fits(window[k], granted[k])

AdmissionInv == AdmissionTypeOK /\ LockInv /\ RateInv /\ RateBounded /\ QuotaKept
=============================================================================
