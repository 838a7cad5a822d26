------------------------------- MODULE Collection -------------------------------
(****************************************************************************)
(* A collection of resources, iterated over (AIOResourceCollection.__anext__ *)
(* and pages, src/aioboto3/resources/collection.py:20-93) or handed to a     *)
(* batch action page by page (AioBatchAction.__call__,                       *)
(* src/aioboto3/resources/action.py:50-90), while other clients add to the   *)
(* listing and remove from it between the requests.                          *)
(*                                                                           *)
(* botocore's paginator and the service are external: a page holds the next  *)
(* keys after the last one read, and MaxItems counts the keys of the         *)
(* response where the code counts the resources made from them.              *)
(****************************************************************************)
EXTENDS Integers, FiniteSets, SequencesExt, FiniteSetsExt

CONSTANTS
    Keys,        \* what the service can list, in this order
    Pairs,       \* the keys with two resources each, as a reservation of instances
    Limits,      \* bound: the limits asked for, None among them
    PageSize,    \* the most keys on a page of a paginated operation
    MaxChanges,  \* bound: changes that other clients make
    MaxEmpty,    \* bound: pages without keys that are not the last one
    None

ASSUME KeysAssumption ==
    IsFiniteSet(Keys) /\ Keys \subseteq Nat \ {0} /\ Pairs \subseteq Keys
ASSUME LimitsAssumption == None \notin Nat /\ Limits \subseteq Nat \cup {None}
ASSUME BoundsAssumption == PageSize \in Nat \ {0} /\ {MaxChanges, MaxEmpty} \subseteq Nat

VARIABLES
    use,        \* "iteration" or "batch"
    paginated,  \* can_paginate
    limit,      \* the limit parameter
    listing,    \* the keys the service lists now
    seen,       \* the keys it has listed at some time
    lasting,    \* the keys no other client has removed
    changes,    \* made by other clients
    step,       \* of the call
    token,      \* the last key the paginator has read
    elements,   \* total_items, the keys the paginator has counted
    empties,    \* pages without keys that were not the last one
    last,       \* nothing follows the page at hand
    count,      \* the resources pages() has counted
    page,       \* the resources of the page that are still to be used
    given,      \* the resources yielded, or sent in a batch
    outcome     \* of the call

service == <<listing, seen, lasting, changes>>
asked == <<use, paginated, limit>>
paginator == <<token, elements, empties, last>>
vars == <<asked, service, paginator, step, count, page, given, outcome>>

Resource(k) == IF k \in Pairs THEN <<2 * k, 2 * k + 1>> ELSE <<2 * k>>
ResourcesOf(ks) == UNION {ToSet(Resource(k)) : k \in ks}

TypeOK ==
    /\ use \in {"iteration", "batch"} /\ paginated \in BOOLEAN /\ limit \in Limits
    /\ lasting \subseteq seen /\ listing \subseteq seen /\ seen \subseteq Keys
    /\ changes \in 0..MaxChanges
    /\ step \in {"asking", "using", "yielded", "acting"}
    /\ token \in Keys \cup {0}
    /\ elements \in 0..Cardinality(Keys)
    /\ empties \in 0..MaxEmpty /\ last \in BOOLEAN
    /\ {page, given} \subseteq Seq(ResourcesOf(Keys))
    /\ count = Len(page) + Len(given)
    /\ outcome \in {"running", "returned", "raised"}

Init ==
    /\ use \in {"iteration", "batch"} /\ paginated \in BOOLEAN /\ limit \in Limits
    /\ listing \in SUBSET Keys /\ seen = listing /\ lasting = listing /\ changes = 0
    /\ step = "asking"
    /\ token = 0 /\ elements = 0 /\ empties = 0 /\ last = FALSE
    /\ count = 0 /\ page = <<>> /\ given = <<>>
    /\ outcome = "running"

-----------------------------------------------------------------------------
(* pages(): the next page.                                                   *)

\* The keys in the service's order.
Ascending(ks) ==
    LET n == Cardinality(ks)
    IN  CHOOSE s \in [1..n -> ks] : \A i, j \in 1..n : i < j => s[i] < s[j]

\* What the service answers: without pagination everything at once, and else
\* the next keys after the token, which may be none although there are more.
Answers ==
    IF ~paginated
    THEN {[keys |-> Ascending(listing), more |-> FALSE]}
    ELSE LET ahead == Ascending({k \in listing : k > token})
             pages == {SubSeq(ahead, 1, n) : n \in 0..Min({PageSize, Len(ahead)})}
         IN  {a \in [keys : pages, more : BOOLEAN] :
                 /\ Len(a.keys) < Len(ahead) => a.more
                 /\ a.keys = <<>> /\ a.more => empties < MaxEmpty}

\* MaxItems cuts the page it is reached on.
WithinMaxItems(ks) ==
    IF paginated /\ limit # None
    THEN SubSeq(ks, 1, Min({Len(ks), limit - elements}))
    ELSE ks

\* AIOResourceHandler: a list of identifiers makes a resource of each of its
\* items, and a response without the list an empty list.
Handler(ks) == FlattenSeq([i \in DOMAIN ks |-> Resource(ks[i])])

Reached(n) == limit # None /\ n >= limit

\* Mutant: the page is not cut at the limit.
PageItemsUncut(rs) == rs

\* The limit is looked at after the append.
PageItems(rs) ==
    IF limit = None
    THEN rs
    ELSE SubSeq(rs, 1, Min({Len(rs), Max({limit - count, 1})}))

ReadPage ==
    /\ step = "asking" /\ outcome = "running"
    /\ \E a \in Answers :
           LET kept == WithinMaxItems(a.keys)
           IN  /\ page' = PageItems(Handler(kept))
               /\ count' = count + Len(page')
               /\ elements' = elements + Len(kept)
               /\ last' = \/ ~a.more \/ Len(kept) < Len(a.keys)
                          \/ paginated /\ limit = elements'
                          \/ Reached(count')
               /\ token' = IF kept = <<>> THEN token ELSE Last(kept)
               /\ empties' = IF a.keys = <<>> /\ a.more THEN empties + 1 ELSE empties
    /\ step' = "using"
    /\ UNCHANGED <<asked, service, given, outcome>>

\* Mutant: the next page is asked for, were this the last one.
AskAgain == step' = "asking" /\ UNCHANGED outcome

\* The loop over the pages goes on, or the call returns.
NextPage ==
    IF last THEN outcome' = "returned" /\ UNCHANGED step
    ELSE step' = "asking" /\ UNCHANGED outcome

\* The request fails, or the resource class cannot be made.
ReadRaises ==
    /\ step = "asking" /\ outcome = "running"
    /\ outcome' = "raised"
    /\ UNCHANGED <<asked, service, paginator, step, count, page, given>>

-----------------------------------------------------------------------------
(* __anext__: one resource of the page after the other.                      *)

YieldItem ==
    /\ use = "iteration" /\ step = "using" /\ outcome = "running"
    /\ page # <<>>
    /\ given' = Append(given, Head(page))
    /\ page' = Tail(page)
    /\ step' = "yielded"
    /\ UNCHANGED <<asked, service, paginator, count, outcome>>

\* The consumer asks for more.
Resume ==
    /\ step = "yielded" /\ outcome = "running"
    /\ IF Reached(Len(given))
       THEN outcome' = "returned" /\ UNCHANGED step
       ELSE step' = "using" /\ UNCHANGED outcome
    /\ UNCHANGED <<asked, service, paginator, count, page, given>>

PageDone ==
    /\ use = "iteration" /\ step = "using" /\ outcome = "running"
    /\ page = <<>>
    /\ NextPage
    /\ UNCHANGED <<asked, service, paginator, count, page, given>>

-----------------------------------------------------------------------------
(* AioBatchAction: a request for each page.                                  *)

\* `if not params: break`
NothingToDo == outcome' = "returned" /\ UNCHANGED step

BatchOfNone ==
    /\ use = "batch" /\ step = "using" /\ outcome = "running"
    /\ page = <<>>
    /\ NothingToDo
    /\ UNCHANGED <<asked, service, paginator, count, page, given>>

StartBatch ==
    /\ use = "batch" /\ step = "using" /\ outcome = "running"
    /\ page # <<>>
    /\ given' = given \o page
    /\ page' = <<>>
    /\ step' = "acting"
    /\ UNCHANGED <<asked, service, paginator, count, outcome>>

\* Deleting takes the keys out of the listing; other actions leave it.
ServiceActs ==
    /\ listing' \in {listing, {k \in listing : ~ToSet(Resource(k)) \subseteq ToSet(given)}}
    /\ UNCHANGED <<seen, lasting, changes>>

BatchReturns ==
    /\ step = "acting" /\ outcome = "running"
    /\ ServiceActs
    /\ NextPage
    /\ UNCHANGED <<asked, paginator, count, page, given>>

\* Whether or not the service has acted.
BatchRaises ==
    /\ step = "acting" /\ outcome = "running"
    /\ ServiceActs
    /\ outcome' = "raised"
    /\ UNCHANGED <<asked, paginator, step, count, page, given>>

-----------------------------------------------------------------------------
OthersChange ==
    /\ outcome = "running" /\ changes < MaxChanges
    /\ changes' = changes + 1
    /\ \E k \in Keys :
           \/ k \notin listing /\ listing' = listing \cup {k}
           \/ k \in listing /\ listing' = listing \ {k}
    /\ seen' = seen \cup listing'
    /\ lasting' = lasting \ (listing \ listing')
    /\ UNCHANGED <<asked, paginator, step, count, page, given, outcome>>

Call == ReadPage \/ ReadRaises \/ YieldItem \/ Resume \/ PageDone
        \/ BatchOfNone \/ StartBatch \/ BatchReturns \/ BatchRaises

Next == Call \/ OthersChange

Spec == Init /\ [][Next]_vars

\* The event loop resumes the call, its requests are answered, and whoever
\* iterates asks for the next resource.
FairSpec == Spec /\ WF_vars(Call)

-----------------------------------------------------------------------------
(* Properties.                                                               *)

\* Only an operation that is not paginated gives one resource for limit=0.
AtMost == IF limit = 0 /\ ~paginated THEN 1 ELSE limit

\* A batch action stops at a page without resources, whatever follows it
\* (action.py:74-76); the caller cannot tell that from the end.
CutShort == use = "batch" /\ empties > 0

Promised == INSTANCE Enumeration WITH
    Resources <- ResourcesOf(Keys),
    limit <- AtMost,
    seen <- ResourcesOf(seen),
    lasting <- ResourcesOf(lasting),
    outcome <- CASE outcome = "running" -> "running"
                 [] outcome # "running" /\ (outcome = "raised" \/ CutShort) -> "abandoned"
                 [] OTHER -> "complete"

\* However the listing changes between the pages, no resource is yielded or
\* acted on twice or out of order, the limit is kept although the paginator
\* counts keys and the code counts resources, and a call that returns has
\* reached everything that was listed throughout, up to the limit.
RefinesEnumeration == Promised!Spec

\* Every iteration comes to its end, and every batch action returns or raises.
CallEnds == <>(outcome # "running")

=============================================================================
