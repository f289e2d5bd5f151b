---------------------------- MODULE NoticeInbox ----------------------------
(***************************************************************************)
(* The durable notice inbox and the hook processes that deliver from it     *)
(* (scripts/python/chrono_state/notifications.py).  A coordinator session   *)
(* has at most one waiter, an asyncRewake hook process that polls the inbox,*)
(* and one resource sampler; synchronous context hooks deliver beside the   *)
(* waiter.  An offer leases a notice to the session for a while; only the   *)
(* recipient's acknowledgement consumes it.  Every transaction holds the    *)
(* store lock and is one step here; hook processes may die between steps.   *)
(*                                                                         *)
(* Time is abstract: a lease is fresh until it expires.  Counters saturate  *)
(* at the largest value the code compares them with.                        *)
(***************************************************************************)
EXTENDS Naturals, FiniteSets, FiniteSetsExt

CONSTANTS
    NoticeCount,     \* bound: notices; they are enqueued in order
    Sessions,        \* session keys: a coordinator and a conversation
    Hooks,           \* hook processes
    None,            \* nobody
    Dead,            \* a process that exited without releasing its lease
    OfferLimit,      \* notices per offer (limit)
    MaxAsyncOffers,  \* MAX_ASYNC_OFFERS
    FaultNoticeAfter,\* SAMPLER_FAULT_NOTICE_AFTER
    MaxKills         \* bound: processes killed and removals of the flag

InboxAssumption ==
    /\ {NoticeCount, OfferLimit, MaxAsyncOffers, FaultNoticeAfter, MaxKills} \subseteq Nat
    /\ OfferLimit > 0 /\ FaultNoticeAfter > 0
    /\ None \notin Hooks \cup Sessions /\ Dead \notin Hooks \cup {None}

Notices == 1..NoticeCount
OwnerOf(s) == s[1]
Owners == {OwnerOf(s) : s \in Sessions}

VARIABLES
    state,    \* notice -> its state in the store
    offers,   \* notice -> offer_count, up to MaxAsyncOffers
    lease,    \* notice -> session it is leased to, None
    fresh,    \* notices whose lease has not expired
    shown,    \* notices some hook has printed
    session,  \* session -> "absent", "open", "closed"
    alive,    \* coordinators that run
    flag,     \* notification-hooks.enabled exists
    waiter,   \* session -> hook process of the waiter lease
    sampler,  \* session -> "none", "live", or "gone" with its lease left behind
    fails,    \* session -> sampler_failures
    backoff,  \* sessions before their sampler_retry_at
    outage,   \* sessions with a fault notice for the present fault epoch
    exits,    \* session -> sampler failures since the last sample (history)
    hook,     \* what each hook process is doing
    kills     \* processes killed and removals of the flag so far

noticeVars == <<state, offers, lease, fresh, shown>>
samplerVars == <<sampler, fails, backoff, outage, exits>>
ivars == <<noticeVars, samplerVars, session, alive, flag, waiter, hook, kills>>

NoHook == [at |-> "idle", s |-> None, sync |-> FALSE, batch |-> {}]

InboxTypeOK ==
    /\ state \in [Notices -> {"absent", "pending", "offered", "attention", "acknowledged"}]
    /\ offers \in [Notices -> 0..MaxAsyncOffers]
    /\ lease \in [Notices -> Sessions \cup {None}]
    /\ fresh \subseteq {n \in Notices : lease[n] # None}
    /\ shown \subseteq Notices
    /\ session \in [Sessions -> {"absent", "open", "closed"}]
    /\ alive \subseteq Owners /\ flag \in BOOLEAN
    /\ waiter \in [Sessions -> Hooks \cup {None, Dead}]
    /\ sampler \in [Sessions -> {"none", "live", "gone"}]
    /\ fails \in [Sessions -> 0..FaultNoticeAfter]
    /\ backoff \subseteq Sessions /\ outage \subseteq Sessions
    /\ exits \in [Sessions -> Nat]
    /\ \A h \in Hooks : /\ hook[h].at \in {"idle", "context", "arm", "wait", "poll", "print"}
                        /\ hook[h].s \in Sessions \cup {None}
                        /\ hook[h].batch \subseteq Notices
    /\ kills \in 0..MaxKills

InboxInit ==
    /\ state = [n \in Notices |-> "absent"] /\ offers = [n \in Notices |-> 0]
    /\ lease = [n \in Notices |-> None] /\ fresh = {} /\ shown = {}
    /\ session = [s \in Sessions |-> "absent"]
    /\ alive = Owners /\ flag = TRUE
    /\ waiter = [s \in Sessions |-> None]
    /\ sampler = [s \in Sessions |-> "none"] /\ fails = [s \in Sessions |-> 0]
    /\ backoff = {} /\ outage = {} /\ exits = [s \in Sessions |-> 0]
    /\ hook = [h \in Hooks |-> NoHook] /\ kills = 0

----------------------------------------------------------------------------
(* The store. *)

EnqueueNotice(n) ==
    /\ state[n] = "absent" /\ \A m \in 1..n-1 : state[m] # "absent"
    /\ state' = [state EXCEPT ![n] = "pending"]
    /\ UNCHANGED <<offers, lease, fresh, shown, samplerVars, session, alive, flag, waiter, hook, kills>>

\* The recipient acknowledges exact ids it was shown.
Acknowledge(n) ==
    /\ n \in shown /\ state[n] # "acknowledged"
    /\ state' = [state EXCEPT ![n] = "acknowledged"]
    /\ lease' = [lease EXCEPT ![n] = None] /\ fresh' = fresh \ {n}
    /\ UNCHANGED <<offers, shown, samplerVars, session, alive, flag, waiter, hook, kills>>

RequireAttention(n) ==
    /\ state[n] \in {"pending", "offered"}
    /\ state' = [state EXCEPT ![n] = "attention"]
    /\ UNCHANGED <<offers, lease, fresh, shown, samplerVars, session, alive, flag, waiter, hook, kills>>

LeaseExpires(n) ==
    /\ n \in fresh
    /\ fresh' = fresh \ {n}
    /\ UNCHANGED <<state, offers, lease, shown, samplerVars, session, alive, flag, waiter, hook, kills>>

\* Not acknowledged, not leased to a live coordinator, and for a wake-up below its cap.
OfferDue(n, sync) ==
    /\ state[n] \notin {"absent", "acknowledged"}
    /\ sync \/ offers[n] < MaxAsyncOffers
    /\ ~(n \in fresh /\ OwnerOf(lease[n]) \in alive)

\* offer_pending: the oldest due notices, up to the limit, leased in one transaction.
OfferBatch(sync) ==
    LET due == {n \in Notices : OfferDue(n, sync)}
    IN  {n \in due : Cardinality({m \in due : m < n}) < OfferLimit}

OfferTo(s, batch) ==
    /\ state' = [n \in Notices |-> IF n \in batch /\ state[n] # "attention" THEN "offered" ELSE state[n]]
    /\ offers' = [n \in Notices |-> IF n \in batch THEN Min({offers[n] + 1, MaxAsyncOffers}) ELSE offers[n]]
    /\ lease' = [n \in Notices |-> IF n \in batch THEN s ELSE lease[n]]
    /\ fresh' = fresh \cup batch

----------------------------------------------------------------------------
(* Sessions and hook processes. *)

\* A hook of an open, absent or, at SessionStart, closed session opens it; a
\* SessionStart retires the other conversations of its coordinator.
HookArrives(h, s, event, wait) ==
    LET opens == event = "SessionStart" \/ session[s] # "closed"
    IN  /\ hook[h].at = "idle" /\ flag /\ OwnerOf(s) \in alive
        /\ session' = [x \in Sessions |->
                          IF x = s THEN (IF opens THEN "open" ELSE session[x])
                          ELSE IF event = "SessionStart" /\ OwnerOf(x) = OwnerOf(s) /\ session[x] = "open"
                               THEN "closed" ELSE session[x]]
        /\ hook' = IF opens THEN [hook EXCEPT ![h] = [NoHook EXCEPT !.s = s, !.sync = (event = "prompt"),
                                                        !.at = IF wait THEN "arm" ELSE "context"]]
                   ELSE hook
        /\ UNCHANGED <<noticeVars, samplerVars, alive, flag, waiter, kills>>

SessionEnd(s) ==
    /\ flag /\ session[s] = "open"
    /\ session' = [session EXCEPT ![s] = "closed"]
    /\ UNCHANGED <<noticeVars, samplerVars, alive, flag, waiter, hook, kills>>

\* claim_waiter: a lease whose process runs is never taken over.
WaiterFree(s) == waiter[s] \in {None, Dead}

ClaimWaiter(h) ==
    LET s == hook[h].s
    IN  /\ hook[h].at = "arm"
        /\ \/ /\ session[s] = "open" /\ WaiterFree(s)
              /\ waiter' = [waiter EXCEPT ![s] = h]
              /\ hook' = [hook EXCEPT ![h].at = "wait"]
           \/ /\ session[s] = "closed" \/ ~WaiterFree(s)
              /\ hook' = [hook EXCEPT ![h] = NoHook]
              /\ UNCHANGED waiter
        /\ UNCHANGED <<noticeVars, samplerVars, session, alive, flag, kills>>

Active(s) == flag /\ OwnerOf(s) \in alive /\ session[s] = "open"

\* release() in the finally clause, which the removed flag skips.
Released(h) ==
    [s \in Sessions |-> IF waiter[s] # h THEN waiter[s] ELSE IF flag THEN None ELSE Dead]

\* One failed sampler attempt: counted, backed off, and reported from the third on.
SamplerFault(s) ==
    /\ fails' = [fails EXCEPT ![s] = Min({@ + 1, FaultNoticeAfter})]
    /\ backoff' = backoff \cup {s}
    /\ outage' = IF fails[s] + 1 >= FaultNoticeAfter THEN outage \cup {s} ELSE outage

\* ensure_sampler: a lease left behind counts as a failure once and is
\* removed; otherwise a child is started, which may fail too.
EnsureSampler(s) ==
    \/ /\ session[s] # "open" \/ sampler[s] = "live" \/ s \in backoff
       /\ UNCHANGED samplerVars
    \/ /\ session[s] = "open" /\ sampler[s] = "gone" /\ s \notin backoff
       /\ sampler' = [sampler EXCEPT ![s] = "none"]
       /\ SamplerFault(s) /\ UNCHANGED exits
    \/ /\ session[s] = "open" /\ sampler[s] = "none" /\ s \notin backoff
       /\ \/ sampler' = [sampler EXCEPT ![s] = "live"] /\ UNCHANGED <<fails, backoff, outage, exits>>
          \/ /\ kills < MaxKills
             /\ SamplerFault(s) /\ UNCHANGED sampler
             /\ exits' = [exits EXCEPT ![s] = @ + 1]

\* A poll: the session is active and the lease still ours; the sampler is kept up.
WaiterPoll(h) ==
    LET s == hook[h].s
    IN  /\ hook[h].at = "wait" /\ Active(s) /\ waiter[s] = h
        /\ EnsureSampler(s)
        /\ kills' = IF exits' = exits THEN kills ELSE kills + 1
        /\ hook' = [hook EXCEPT ![h].at = "poll"]
        /\ UNCHANGED <<noticeVars, session, alive, flag, waiter>>

WaiterOffer(h) ==
    LET s == hook[h].s
        batch == OfferBatch(FALSE)
    IN  /\ hook[h].at = "poll"
        /\ \/ /\ batch # {}
              /\ OfferTo(s, batch)
              /\ waiter' = Released(h)
              /\ hook' = [hook EXCEPT ![h].at = "print", ![h].batch = batch]
           \/ /\ batch = {}
              /\ \/ hook' = [hook EXCEPT ![h].at = "wait"] /\ UNCHANGED waiter
                 \/ hook' = [hook EXCEPT ![h] = NoHook] /\ waiter' = Released(h)  \* renewal
              /\ UNCHANGED <<state, offers, lease, fresh>>
        /\ UNCHANGED <<shown, samplerVars, session, alive, flag, kills>>

WaiterStops(h) ==
    /\ hook[h].at = "wait" /\ (~Active(hook[h].s) \/ waiter[hook[h].s] # h)
    /\ waiter' = Released(h)
    /\ hook' = [hook EXCEPT ![h] = NoHook]
    /\ UNCHANGED <<noticeVars, samplerVars, session, alive, flag, kills>>

\* A context hook offers after its rendezvous with the waiter, armed or not.
ContextOffer(h) ==
    LET batch == OfferBatch(hook[h].sync)
    IN  /\ hook[h].at = "context"
        /\ \/ /\ batch # {}
              /\ OfferTo(hook[h].s, batch)
              /\ hook' = [hook EXCEPT ![h].at = "print", ![h].batch = batch]
           \/ /\ batch = {}
              /\ hook' = [hook EXCEPT ![h] = NoHook]
              /\ UNCHANGED <<state, offers, lease, fresh>>
        /\ UNCHANGED <<shown, samplerVars, session, alive, flag, waiter, kills>>

PrintNotices(h) ==
    /\ hook[h].at = "print"
    /\ shown' = shown \cup hook[h].batch
    /\ hook' = [hook EXCEPT ![h] = NoHook]
    /\ UNCHANGED <<state, offers, lease, fresh, samplerVars, session, alive, flag, waiter, kills>>

----------------------------------------------------------------------------
(* The sampler process, faults, and the operator. *)

\* A committed sample ends the failure episode.
SamplerSamples(s) ==
    /\ sampler[s] = "live" /\ Active(s)
    /\ fails' = [fails EXCEPT ![s] = 0] /\ exits' = [exits EXCEPT ![s] = 0]
    /\ backoff' = backoff \ {s} /\ outage' = outage \ {s}
    /\ UNCHANGED <<noticeVars, sampler, session, alive, flag, waiter, hook, kills>>

\* The loop ends because its session is not active: released, unless the flag is gone.
SamplerStops(s) ==
    /\ sampler[s] = "live" /\ ~Active(s)
    /\ sampler' = [sampler EXCEPT ![s] = IF flag THEN "none" ELSE "gone"]
    /\ exits' = IF flag THEN exits ELSE [exits EXCEPT ![s] = @ + 1]
    /\ UNCHANGED <<noticeVars, fails, backoff, outage, session, alive, flag, waiter, hook, kills>>

\* An exception in the sampler: its release counts the failure of an open session.
SamplerFaults(s) ==
    /\ sampler[s] = "live" /\ kills < MaxKills /\ flag /\ session[s] = "open"
    /\ sampler' = [sampler EXCEPT ![s] = "none"]
    /\ SamplerFault(s)
    /\ exits' = [exits EXCEPT ![s] = @ + 1]
    /\ kills' = kills + 1
    /\ UNCHANGED <<noticeVars, session, alive, flag, waiter, hook>>

SamplerKilled(s) ==
    /\ sampler[s] = "live" /\ kills < MaxKills
    /\ sampler' = [sampler EXCEPT ![s] = "gone"]
    /\ exits' = [exits EXCEPT ![s] = @ + 1]
    /\ kills' = kills + 1
    /\ UNCHANGED <<noticeVars, fails, backoff, outage, session, alive, flag, waiter, hook>>

BackoffEnds(s) ==
    /\ s \in backoff
    /\ backoff' = backoff \ {s}
    /\ UNCHANGED <<noticeVars, sampler, fails, outage, exits, session, alive, flag, waiter, hook, kills>>

HookKilled(h) ==
    /\ hook[h].at # "idle" /\ kills < MaxKills
    /\ hook' = [hook EXCEPT ![h] = NoHook]
    /\ waiter' = [s \in Sessions |-> IF waiter[s] = h THEN Dead ELSE waiter[s]]
    /\ kills' = kills + 1
    /\ UNCHANGED <<noticeVars, samplerVars, session, alive, flag>>

CoordinatorDies(o) ==
    /\ o \in alive /\ kills < MaxKills
    /\ alive' = alive \ {o} /\ kills' = kills + 1
    /\ UNCHANGED <<noticeVars, samplerVars, session, flag, waiter, hook>>

ToggleFlag ==
    /\ flag => kills < MaxKills
    /\ kills' = IF flag THEN kills + 1 ELSE kills
    /\ flag' = ~flag
    /\ UNCHANGED <<noticeVars, samplerVars, session, alive, waiter, hook>>

Prompt(s) == \E h \in Hooks : HookArrives(h, s, "prompt", FALSE)
HookStep(h) ==
    ClaimWaiter(h) \/ WaiterPoll(h) \/ WaiterOffer(h) \/ WaiterStops(h) \/ ContextOffer(h) \/ PrintNotices(h)

InboxNext ==
    \/ \E n \in Notices : EnqueueNotice(n) \/ Acknowledge(n) \/ RequireAttention(n) \/ LeaseExpires(n)
    \/ \E h \in Hooks :
        \/ \E s \in Sessions, event \in {"SessionStart", "tool", "prompt"}, wait \in BOOLEAN :
                HookArrives(h, s, event, wait)
        \/ HookStep(h)
        \/ HookKilled(h)
    \/ \E s \in Sessions :
        \/ SessionEnd(s) \/ SamplerSamples(s) \/ SamplerStops(s) \/ SamplerFaults(s)
        \/ SamplerKilled(s) \/ BackoffEnds(s)
    \/ \E o \in Owners : CoordinatorDies(o)
    \/ ToggleFlag

InboxSpec == InboxInit /\ [][InboxNext]_ivars

\* Hook processes run on, leases expire, an open session sees prompts again
\* and again, and the recipient acknowledges what it was shown.
PromptAgain(s) == session[s] = "open" /\ Prompt(s)

----------------------------------------------------------------------------
(* Properties. *)

\* A session never has two waiter processes in their polling loop, whatever was
\* killed, resumed or re-armed: a live lease is degraded, never stolen (lease_alive).
OneWaiter ==
    \A s \in Sessions :
        Cardinality({h \in Hooks : hook[h].s = s /\ hook[h].at \in {"wait", "poll"}}) <= 1

\* Every failed sampler attempt since the last sample is counted exactly once,
\* whether it failed to start, released its lease or left it behind, and the
\* third is reported (_sampler_fault, ensure_sampler, release).
FaultsCountedOnce ==
    \A s \in Sessions :
        LET counted == exits[s] - (IF sampler[s] = "gone" THEN 1 ELSE 0)
        IN  /\ fails[s] = Min({counted, FaultNoticeAfter})
            /\ counted >= FaultNoticeAfter => s \in outage

\* The inbox keeps the durable obligation: no offer, lease, kill or expiry
\* loses a notice, and only the recipient's acknowledgement consumes it.
InboxOwed == [n \in Notices |-> IF state[n] = "absent" THEN "none"
                                ELSE IF state[n] = "acknowledged" THEN "consumed" ELSE "owed"]
InboxObligation == INSTANCE Obligations WITH Events <- Notices, owed <- InboxOwed

\* As long as some session is open again and again, every notice is shown and
\* acknowledged in the end: older notices and the wake-up cap delay it only.
Attending == /\ flag
             /\ \E s \in Sessions : session[s] = "open" /\ OwnerOf(s) \in alive
             /\ \E h \in Hooks : hook[h].at = "idle"
=============================================================================
