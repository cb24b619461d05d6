----------------------------- MODULE AppleClient -----------------------------
(***************************************************************************)
(* Finding Apple's services on a link, apple_client.c: one chain of GATT    *)
(* procedures, each begun by the callback of the one before, through ANCS,  *)
(* the time service and Service Changed; its guard, its retries, and what   *)
(* starts it over.  AppleFetch has what comes once it has been subscribed.   *)
(*                                                                          *)
(* The phone is external.  It publishes ANCS, withdraws it or moves it at   *)
(* any time: its databases are numbered, ANCS is in the odd ones, and a      *)
(* handle is the number of the database it was found in.  A procedure may    *)
(* report a find (Row), ends well (Done) or with an error (Failed); NimBLE   *)
(* gives one that is not answered up after a time, which is an error too.    *)
(***************************************************************************)
EXTENDS Naturals, Sequences

CONSTANTS
    MaxTries,    \* DISCOVERY_MAX_TRIES
    MaxDatabase, \* bound: databases of the phone
    MaxErrors,   \* bound: procedures that fail or cannot be begun
    MaxChains,   \* bound: chains under way at once
    MaxConns     \* bound: connections

ASSUME ClientAssumption ==
    /\ MaxTries \in Nat \ {0}
    /\ {MaxDatabase, MaxErrors, MaxChains, MaxConns} \subseteq Nat

VARIABLES
    conn,        \* "down", "up" or "secure": s_conn_handle, s_encrypted
    discovering, \* s_discovering
    tries,       \* s_tries
    armed,       \* s_retry_at_ms is set
    handles,     \* s_h: where the service, the characteristics and the CCCDs are; the flags
    changedAt,   \* s_service_changed_handle is set
    procs,       \* GATT procedures under way, in order
    database,    \* the phone's
    notifies,    \* the CCCDs written in it
    indicates,   \* the phone has our Service Changed CCCD
    indication,  \* one is on its way
    untold,      \* history: the phone changed on this link and the terminal was not told
    errors, conns

clientVars == <<conn, discovering, tries, armed, handles, changedAt, procs, database,
                notifies, indicates, indication, untold, errors, conns>>
phoneSide == <<database, notifies, indicates, indication>>
bounds == <<errors, conns>>

NoHandles == [svc |-> 0, chr |-> 0, cccd |-> 0, ns |-> FALSE, ds |-> FALSE]
Ancs(db) == db % 2 = 1

ClientInit ==
    /\ conn = "down" /\ discovering = FALSE /\ tries = 0 /\ armed = FALSE
    /\ handles = NoHandles /\ changedAt = FALSE /\ procs = <<>>
    /\ database \in {0, 1} /\ notifies = {} /\ indicates = FALSE /\ indication = FALSE
    /\ untold = FALSE /\ errors = 0 /\ conns = 0

-----------------------------------------------------------------------------
(* The chain.  A procedure knows the handle it was begun for.               *)

Proc(stage, of) == [stage |-> stage, of |-> of]

\* What discover_cts and discover_service_changed go on to, on whatever fails.
TimeStages == <<"ctsSvc", "ctsChr", "ctsDsc", "ctsRead", "ctsSub">>
Cts == Proc("ctsSvc", 0)
Changed == Proc("scSvc", 0)
End == Proc("end", 0)

\* The time service's stages: the next one, or what it is given up for.
AfterTime(stage, well) ==
    LET i == CHOOSE k \in DOMAIN TimeStages : TimeStages[k] = stage IN
    IF stage = "ctsSub" THEN {Changed}
    ELSE (IF well \/ stage = "ctsRead" THEN {Proc(TimeStages[i + 1], 0)} ELSE {}) \cup {Changed}

\* The next procedure when one has ended well, by what has been found.
AfterDone(p, h, sc) ==
    CASE p.stage = "svc" -> {IF h.svc = 0 THEN Cts ELSE Proc("chr", h.svc)}
      [] p.stage = "chr" -> {IF h.chr = 0 THEN Cts ELSE Proc("dsc", h.svc)}
      [] p.stage = "dsc" -> {IF h.cccd = 0 THEN Cts ELSE Proc("ds", h.cccd)}
      [] p.stage = "ds"  -> {IF h.cccd = 0 THEN Cts ELSE Proc("ns", h.cccd)}
      [] p.stage = "ns"  -> {Cts}
      [] p.stage = "scSvc" -> {Proc("scChr", 0), End}
      [] p.stage = "scChr" -> {IF sc THEN Proc("scDsc", 0) ELSE End}
      [] p.stage = "scDsc" -> {End}
      [] OTHER -> AfterTime(p.stage, TRUE)

AfterFailed(p, h) ==
    CASE p.stage = "svc" -> {End}
      [] p.stage \in {"chr", "dsc", "ns"} -> {Cts}
      [] p.stage = "ds" -> {IF h.cccd = 0 THEN Cts ELSE Proc("ns", h.cccd)}
      [] p.stage \in {"scSvc", "scChr", "scDsc"} -> {End}
      [] OTHER -> AfterTime(p.stage, FALSE)

\* A procedure that cannot be begun is passed over in the same callback.
Begun(p) ==
    IF p.stage \in {"chr", "dsc", "ds", "ns"} THEN {Cts}
    ELSE IF p.stage \in {"scSvc", "scChr", "scDsc"} THEN {End} ELSE {Changed}

\* Going on with next: Service Changed forgets its handle first, and the end
\* of the chain, or a phone without ANCS, gives the guard back.
GoOn(next, giveBack) ==
    /\ procs' = IF next = End THEN Tail(procs) ELSE Append(Tail(procs), next)
    /\ discovering' = IF next = End \/ giveBack THEN FALSE ELSE discovering
    /\ changedAt' = IF next = Changed THEN FALSE ELSE changedAt

Continue(candidates, giveBack) ==
    \E next \in candidates :
        \/ GoOn(next, giveBack) /\ UNCHANGED errors
        \/ /\ next # End /\ errors < MaxErrors /\ errors' = errors + 1
           /\ \E other \in Begun(next) : GoOn(other, giveBack)

-----------------------------------------------------------------------------
(* The callbacks.                                                           *)

\* A find: what on_ancs_svc, on_ancs_chr, on_ancs_dsc and the Service Changed
\* callbacks note of a row.
Row ==
    /\ procs # <<>>
    /\ LET p == Head(procs) IN
       /\ \/ /\ p.stage = "svc" /\ Ancs(database)
             /\ handles' = [handles EXCEPT !.svc = database]
             /\ UNCHANGED <<changedAt, indicates>>
          \/ /\ p.stage = "chr" /\ p.of = database
             /\ handles' = [handles EXCEPT !.chr = database]
             /\ UNCHANGED <<changedAt, indicates>>
          \/ /\ p.stage = "dsc" /\ p.of = database /\ handles.chr = database
             /\ handles' = [handles EXCEPT !.cccd = database]
             /\ UNCHANGED <<changedAt, indicates>>
          \/ p.stage = "scChr" /\ changedAt' = TRUE /\ UNCHANGED <<handles, indicates>>
          \/ p.stage = "scDsc" /\ indicates' = TRUE /\ UNCHANGED <<handles, changedAt>>
       /\ <<handles, changedAt, indicates>>' # <<handles, changedAt, indicates>>
    /\ UNCHANGED <<conn, discovering, tries, armed, procs, database, notifies, indication,
                   untold, bounds>>

\* A stage that finds everything there is to find in the phone of that moment.
Complete(p) ==
    CASE p.stage = "svc" -> Ancs(database) => handles.svc # 0
      [] p.stage = "chr" -> p.of = database => handles.chr # 0
      [] p.stage = "dsc" -> p.of = database /\ handles.chr = database => handles.cccd # 0
      [] p.stage = "scChr" -> changedAt
      [] p.stage = "scDsc" -> indicates
      [] OTHER -> TRUE

\* A CCCD is written in the database it was found in, or the write fails.
Writes(p) == p.stage \in {"ns", "ds"}

Done ==
    /\ procs # <<>> /\ conn = "secure"
    /\ LET p == Head(procs) IN
       /\ Complete(p) /\ (Writes(p) => p.of = database)
       /\ handles' = IF Writes(p) THEN [handles EXCEPT ![p.stage] = TRUE] ELSE handles
       /\ notifies' = IF Writes(p) THEN notifies \cup {p.stage} ELSE notifies
       /\ Continue(AfterDone(p, handles, changedAt), p.stage = "svc" /\ handles.svc = 0)
    /\ UNCHANGED <<conn, tries, armed, database, indicates, indication, untold, conns>>

Failed ==
    /\ procs # <<>> /\ conn = "secure"
    /\ LET p == Head(procs) IN
       /\ \/ Writes(p) /\ p.of # database /\ UNCHANGED errors
          \/ errors < MaxErrors /\ errors' = errors + 1
       /\ \E next \in AfterFailed(p, handles) : GoOn(next, FALSE)
    /\ UNCHANGED <<conn, tries, armed, handles, phoneSide, untold, conns>>

\* start_discovery, of a secure link: the guard and the tries as its caller
\* leaves them.
Start(guard, count) ==
    IF guard
    THEN /\ discovering' = guard /\ tries' = count /\ UNCHANGED <<handles, procs, errors>>
    ELSE /\ Len(procs) < MaxChains
         /\ tries' = count + 1 /\ handles' = NoHandles
         /\ \/ procs' = Append(procs, Proc("svc", 0)) /\ discovering' = TRUE /\ UNCHANGED errors
            \/ /\ errors < MaxErrors /\ errors' = errors + 1
               /\ discovering' = FALSE /\ UNCHANGED procs

-----------------------------------------------------------------------------
(* The link, and Service Changed.                                           *)

\* apple_client_on_connect: a phone keeps the CCCDs of a bond, or does not.
LinkUp ==
    /\ conn = "down" /\ conns < MaxConns /\ conns' = conns + 1
    /\ conn' = "up" /\ discovering' = FALSE /\ tries' = 0 /\ armed' = FALSE
    /\ handles' = NoHandles
    /\ indicates' \in {FALSE, indicates} /\ notifies' = {} /\ indication' = FALSE
    /\ untold' = FALSE
    /\ UNCHANGED <<changedAt, procs, database, errors>>

\* apple_client_on_encryption
Secured ==
    /\ conn = "up" /\ conn' = "secure"
    /\ Start(discovering, 0)
    /\ UNCHANGED <<armed, changedAt, phoneSide, untold, conns>>

\* apple_client_on_disconnect; the procedures under way end in the same
\* moment, with errors that find no connection to go on with.
LinkDown ==
    /\ conn # "down" /\ conn' = "down"
    /\ discovering' = FALSE /\ handles' = NoHandles /\ procs' = <<>>
    /\ changedAt' \in {changedAt, FALSE}
    /\ notifies' = {} /\ indication' = FALSE
    /\ UNCHANGED <<tries, armed, database, indicates, untold, bounds>>

\* The phone publishes ANCS, or withdraws it.
Publish ==
    /\ database < MaxDatabase
    /\ database' = database + 1 /\ notifies' = {}
    /\ indication' = (indication \/ (conn = "secure" /\ indicates))
    /\ untold' = (untold \/ ~indicates \/ conn # "secure")
    /\ UNCHANGED <<conn, discovering, tries, armed, handles, changedAt, procs, indicates, bounds>>

\* apple_client_on_notify_rx, of the Service Changed handle.
RestartGuarded == Start(discovering, 0)
Restart == Start(FALSE, 0)

HearChanged ==
    /\ indication /\ indication' = FALSE
    /\ \/ changedAt /\ Restart /\ UNCHANGED untold
       \/ ~changedAt /\ untold' = TRUE
          /\ UNCHANGED <<discovering, tries, handles, procs, errors>>
    /\ UNCHANGED <<conn, armed, changedAt, database, notifies, indicates, conns>>

\* apple_client_tick: the first that finds nothing done sets the time, a later
\* one that finds it past begins again.
Subscribed == handles.ns /\ handles.ds
ClientTick ==
    /\ conn = "secure" /\ ~discovering /\ ~Subscribed /\ tries < MaxTries
    /\ IF armed THEN Start(FALSE, tries)
       ELSE UNCHANGED <<discovering, tries, handles, procs, errors>>
    /\ armed' = TRUE
    /\ UNCHANGED <<conn, changedAt, phoneSide, untold, conns>>

ClientNext ==
    \/ Row \/ Done \/ Failed \/ LinkUp \/ Secured \/ LinkDown \/ Publish
    \/ HearChanged \/ ClientTick

-----------------------------------------------------------------------------
\* What the phone announces, the terminal hears.
Hears == Subscribed /\ handles.chr = database /\ notifies = {"ns", "ds"}

\* On a link that lasts, with a phone that has told of its last change, ANCS
\* is found and subscribed to, unless every try has been used up.
Discovers ==
    \/ []<>(conn # "secure")
    \/ <>[](~Ancs(database) \/ Hears \/ untold \/ (tries >= MaxTries /\ ~Subscribed))
=============================================================================
