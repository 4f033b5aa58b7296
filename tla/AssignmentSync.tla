---------------------------- MODULE AssignmentSync ----------------------------
(***************************************************************************)
(* The synchronisation of per-account proxy assignments                    *)
(* (models/sync/proxy_assignment.rs, state/proxy_sync.rs, config_sync.rs): *)
(* last-writer-wins entries keyed by the account's address, merged by two  *)
(* instances in both directions and then applied to the stored accounts.   *)
(* One account is modelled; the limit of 10,000 entries, which evicts the  *)
(* oldest, is not reached (the code's comment counts on that). A write of  *)
(* the stored account may fail; most are only logged then.                 *)
(***************************************************************************)
EXTENDS Integers, FiniteSets

CONSTANTS Sites,        \* instances; each may poll the others
          Urls,         \* proxy addresses
          Choices,      \* what the operator of each instance may choose
          Greater(_, _),\* the order of address strings that breaks ties
          MaxClock,     \* bound on the clocks
          MaxChanges    \* bound on changes, logins, reloads, restarts and losses

NoProxy == "none"
Values == Urls \union {NoProxy}
NoEntry == [url |-> NoProxy, at |-> -1]
Idle == "idle"
Entries == [url : Values, at : -1 .. MaxClock + MaxChanges]

VARIABLES asEntry,      \* per instance, the assignment, NoEntry when it has none
          asAccount,    \* per instance, proxy_url of the stored account
          asWire,       \* entries under way from one instance to another
          asStored,     \* per instance, an assignment its operator's request has stored
                        \* in the account and not yet in the table, Idle without one
          asApply,      \* per instance, the applications under way, one for each merge
                        \* that changed something: the entry, and whether it was alone
          asClock,      \* per instance
          asChanges,
          asStuck,      \* instances whose mapping a hot reload keeps locked
          asApart       \* history: instances where the account was written beside the
                        \* table, or not at all, since the last application alone

asVars == <<asEntry, asAccount, asWire, asStored, asApply, asClock, asChanges, asStuck, asApart>>

Init == /\ asEntry = [s \in Sites |-> NoEntry]
        /\ asAccount = [s \in Sites |-> NoProxy]
        /\ asWire = {} /\ asStored = [s \in Sites |-> Idle] /\ asApply = [s \in Sites |-> {}]
        /\ asClock = [s \in Sites |-> 0] /\ asChanges = 0 /\ asStuck = {} /\ asApart = {}

-----------------------------------------------------------------------------
(* Higher timestamp first; at a tie removal, then the greater address.     *)
\* Mutant of WinsOver: a tie keeps what is there.
StrictlyLater(a, b) == a.at > b.at
WinsOver(a, b) == \/ a.at > b.at
                  \/ /\ a.at = b.at /\ a.url # b.url
                     /\ a.url = NoProxy \/ (b.url # NoProxy /\ Greater(a.url, b.url))

Tick(s) == /\ asClock[s] < MaxClock /\ asClock' = [asClock EXCEPT ![s] = @ + 1]
           /\ UNCHANGED <<asEntry, asAccount, asWire, asStored, asApply, asChanges, asStuck, asApart>>
Crossed(applications) == {[a EXCEPT !.alone = FALSE] : a \in applications}
Trouble == asChanges < MaxChanges /\ asChanges' = asChanges + 1

(* The operator's change, one at a time: the account is stored and loaded  *)
(* again, then the assignment, with the clock or just above the entry it   *)
(* replaces. A file that cannot be written does not end it (persist_proxy_ *)
(* url; a row that cannot does, and nothing has changed).                  *)
Store(s, url) ==
    /\ asStored[s] = Idle /\ Trouble
    /\ \E account \in {url, asAccount[s]} :
          /\ asAccount' = [asAccount EXCEPT ![s] = account]
          /\ asApart' = IF asApply[s] = {} /\ account = url THEN asApart ELSE asApart \union {s}
    /\ asStored' = [asStored EXCEPT ![s] = url]
    /\ asApply' = [asApply EXCEPT ![s] = Crossed(@)]
    /\ UNCHANGED <<asEntry, asWire, asClock, asStuck>>
Change(s) ==
    /\ asStored[s] # Idle
    /\ asEntry' = [asEntry EXCEPT ![s] =
          [url |-> asStored[s], at |-> IF asEntry[s].at + 1 > asClock[s] /\ asEntry[s] # NoEntry
                                       THEN asEntry[s].at + 1 ELSE asClock[s]]]
    /\ asStored' = [asStored EXCEPT ![s] = Idle]
    /\ UNCHANGED <<asAccount, asWire, asApply, asClock, asChanges, asStuck, asApart>>

(* The client hangs up between the two: the handler is dropped.            *)
HangUp(s) ==
    /\ asStored[s] # Idle
    /\ asStored' = [asStored EXCEPT ![s] = Idle] /\ asApart' = asApart \union {s}
    /\ UNCHANGED <<asEntry, asAccount, asWire, asApply, asClock, asChanges, asStuck>>

(* A login may bring a proxy along, which goes to the account and not to   *)
(* the table (handle_oauth_callback, submit_oauth_code).                   *)
Login(s, url) ==
    /\ Trouble
    /\ asAccount' = [asAccount EXCEPT ![s] = url] /\ asApart' = asApart \union {s}
    /\ asApply' = [asApply EXCEPT ![s] = Crossed(@)]
    /\ UNCHANGED <<asEntry, asWire, asStored, asClock, asStuck>>

(* A hot reload never ends (MappingSync): an instance whose mapping it     *)
(* locks, or that polls such a one, starts no exchange any more, because   *)
(* each begins with the mapping (sync_once). The one under way goes on.    *)
HotReload(s) ==
    /\ s \notin asStuck /\ Trouble /\ asStuck' = asStuck \union {s}
    /\ UNCHANGED <<asEntry, asAccount, asWire, asStored, asApply, asClock, asApart>>

(* A poll answers with the assignment of the polled instance, a push with  *)
(* the entries newer than the ones just read: one message either way.      *)
Export(from, to) ==
    /\ from # to
    /\ ~\E m \in asWire : m.from = from /\ m.to = to
    /\ asWire' = asWire \union {[from |-> from, to |-> to, entry |-> asEntry[from]]}
    /\ UNCHANGED <<asEntry, asAccount, asStored, asApply, asClock, asChanges, asStuck, asApart>>

Lose(m) == /\ Trouble
           /\ asWire' = asWire \ {m}
           /\ UNCHANGED <<asEntry, asAccount, asStored, asApply, asClock, asStuck, asApart>>

(* merge_lww under the lock; when it changed something the assignments are *)
(* read again and applied to the accounts.                                 *)
Merge(m) ==
    /\ asWire' = asWire \ {m}
    /\ IF m.entry # NoEntry /\ (asEntry[m.to] = NoEntry \/ WinsOver(m.entry, asEntry[m.to]))
       THEN LET alone == asApply[m.to] = {} /\ asStored[m.to] = Idle IN
            /\ asEntry' = [asEntry EXCEPT ![m.to] = m.entry]
            /\ asApply' = [asApply EXCEPT ![m.to] = Crossed(@) \union {[entry |-> m.entry, alone |-> alone]}]
            /\ asApart' = IF alone THEN asApart ELSE asApart \union {m.to}
       ELSE UNCHANGED <<asEntry, asApply, asApart>>
    /\ UNCHANGED <<asAccount, asStored, asClock, asChanges, asStuck>>

(* apply_proxy_assignments_to_accounts: the accounts may not be listed, or *)
(* the account not written, and there is no second try; one that differs   *)
(* when it is listed may be the same when it is written, or the reverse.   *)
(* What was alone and succeeds ends the differences of before.             *)
Apply(s, a) ==
    /\ asApply' = [asApply EXCEPT ![s] = @ \ {a}]
    /\ \/ /\ asAccount' = [asAccount EXCEPT ![s] = a.entry.url]
          /\ asApart' = IF a.alone /\ a.entry = asEntry[s] THEN asApart \ {s} ELSE asApart
       \/ asAccount' = asAccount /\ asApart' = asApart \union {s}
    /\ UNCHANGED <<asEntry, asWire, asStored, asClock, asChanges, asStuck>>

Receive(s) == \E m \in asWire : m.to = s /\ Merge(m)
ApplyNext(s) == \E a \in asApply[s] : Apply(s, a)

(* A restart loses the table and what was under way at the instance;       *)
(* hydrate_proxy_assignments builds it from the stored accounts, with the  *)
(* clock for a timestamp, or leaves it empty when they cannot be listed.   *)
Restart(s) ==
    /\ Trouble
    /\ \E listed \in BOOLEAN :
          asEntry' = [asEntry EXCEPT ![s] =
             IF asAccount[s] = NoProxy \/ ~listed THEN NoEntry ELSE [url |-> asAccount[s], at |-> asClock[s]]]
    /\ asApply' = [asApply EXCEPT ![s] = {}] /\ asStored' = [asStored EXCEPT ![s] = Idle]
    /\ asWire' = {m \in asWire : m.to # s}
    /\ asStuck' = asStuck \ {s} /\ asApart' = asApart \ {s}
    /\ UNCHANGED <<asAccount, asClock>>

Next == \/ \E s \in Sites : \/ Tick(s) \/ Change(s) \/ HangUp(s) \/ HotReload(s)
                            \/ \E url \in Choices[s] : Store(s, url)
                            \/ \E url \in Choices[s] \ {NoProxy} : Login(s, url)
                            \/ \E t \in Sites : Export(s, t)
                            \/ Receive(s) \/ ApplyNext(s) \/ Restart(s)
        \/ \E m \in asWire : Lose(m)

-----------------------------------------------------------------------------
TypeOK ==
    /\ asEntry \in [Sites -> Entries] /\ asAccount \in [Sites -> Values]
    /\ asWire \subseteq [from : Sites, to : Sites, entry : Entries]
    /\ asStored \in [Sites -> Values \union {Idle}]
    /\ asApply \in [Sites -> SUBSET [entry : Entries, alone : BOOLEAN]]
    /\ asClock \in [Sites -> 0 .. MaxClock] /\ asChanges \in 0 .. MaxChanges
    /\ asStuck \subseteq Sites /\ asApart \subseteq Sites

(* Once the operators stop and no hot reload keeps a mapping locked, all   *)
(* instances come to hold the same assignment for the account, whatever    *)
(* clocks they have and whatever messages were lost, repeated or met a     *)
(* restart, equal timestamps included. Each has it in its stored account   *)
(* too, unless since the last application that stands alone two writes of  *)
(* the account overlapped there (their order is nobody's: proxy_sync.rs:64,*)
(* 118-160), one failed and was only logged, or a login was one, or the    *)
(* operator's request was dropped between the account and the table.       *)
InStep ==
    LET agreed == \A s, t \in Sites : asEntry[s] = asEntry[t]
        stored == \A s \in Sites \ asApart : asEntry[s] # NoEntry => asAccount[s] = asEntry[s].url
    IN  asStuck = {} => agreed /\ stored
=============================================================================
