--------------------------- MODULE SaleorServices ---------------------------
(***************************************************************************)
(* The services that make several requests to Saleor for one call: a       *)
(* customer's order behind its ownership checks, the end of a promotion,   *)
(* and the search for the one variant that fits a selection.  Between two  *)
(* requests anything may change in Saleor.                                 *)
(*                                                                         *)
(* Saleor is external: orders have an owner and promotions a schedule,     *)
(* which must end after it starts, and the merchant may change both; a     *)
(* list of variants comes in pages, and nothing is assumed of the pages.   *)
(* Every request may fail, or take effect and lose its answer.             *)
(***************************************************************************)
EXTENDS Integers, FiniteSets

CONSTANTS Callers,
          Users, Orders, Promotions,
          Variants,
          Fitting,       \* variants that have all selected attributes
          Cursors,
          MaxPages,      \* max_pages of resolve_variant
          MaxClock,      \* bound on the clock and on what is scheduled
          Nothing

ASSUME SaleorAssumption ==
  /\ Fitting \subseteq Variants /\ IsFiniteSet(Variants)
  /\ MaxPages \in Nat \ {0} /\ MaxClock \in Nat \ {0}
  /\ Nothing \notin Users \cup Orders \cup Promotions \cup Variants \cup Cursors \cup Int

VARIABLES
  clock,     \* in seconds
  owner,     \* of each order
  schedule,  \* start and end of each promotion, end Nothing if open
  at,        \* where each caller is
  call,      \* what it asks
  read,      \* what it has read last
  search,    \* of resolve_variant: matches, cursor, cursors seen,
             \* whether the last page announced another
  delivered, \* all variants a caller was sent, for the properties
  told       \* [kind, value]: what it was told

saleor == <<clock, owner, schedule>>
calls == <<at, call, read, search, delivered, told>>
saleorVars == <<saleor, calls>>

Schedules == {s \in [start : 0 .. MaxClock + 1, end : (1 .. MaxClock + 2) \cup {Nothing}] :
                s.end # Nothing => s.start < s.end}

\* A customer's identity is a user, or Nothing if it is not authenticated.
Requests ==
  [what : {"get_my_order"}, identity : Users \cup {Nothing}, order : Orders]
    \cup [what : {"disable_promotion"}, promotion : Promotions]
    \cup [what : {"update_promotion"}, promotion : Promotions, dates : Schedules]
    \cup [what : {"resolve_variant"}]

NoAnswer == [kind |-> "none"]
Denied == [kind |-> "denied"]
Failed == [kind |-> "error"]
Ok(value) == [kind |-> "ok", value |-> value]

NoSearch == [matches |-> {}, cursor |-> Nothing, seen |-> {}, more |-> TRUE]

SaleorInit ==
  /\ clock = 1
  /\ owner \in [Orders -> Users] /\ schedule \in [Promotions -> Schedules]
  /\ at = [c \in Callers |-> "idle"] /\ call = [c \in Callers |-> Nothing]
  /\ read = [c \in Callers |-> Nothing] /\ search = [c \in Callers |-> NoSearch]
  /\ delivered = [c \in Callers |-> {}] /\ told = [c \in Callers |-> NoAnswer]

-----------------------------------------------------------------------------
(* Calls and requests.                                                     *)

Asks(c, what) == call[c] # Nothing /\ call[c].what = what

\* The first request; policy and arguments are checked before it.  Only an
\* authenticated customer has orders.
FirstStep(r) ==
  CASE r.what = "get_my_order" -> IF r.identity = Nothing THEN "denied" ELSE "authorizing"
    [] r.what = "disable_promotion" -> "reading"
    [] r.what = "update_promotion" -> "writing"
    [] r.what = "resolve_variant" -> "paging"

Call(c, r) ==
  /\ at[c] = "idle" /\ told[c] = NoAnswer
  /\ call' = [call EXCEPT ![c] = r]
  /\ IF FirstStep(r) = "denied"
     THEN told' = [told EXCEPT ![c] = Denied] /\ UNCHANGED at
     ELSE at' = [at EXCEPT ![c] = FirstStep(r)] /\ UNCHANGED told
  /\ UNCHANGED <<saleor, read, search, delivered>>

\* The call returns or raises.
Return(c, a) ==
  /\ at' = [at EXCEPT ![c] = "idle"] /\ told' = [told EXCEPT ![c] = a]

GoOn(c, to) == at' = [at EXCEPT ![c] = to] /\ UNCHANGED told

\* A request fails without effect: transport, timeout, refusal by Saleor, data
\* that do not parse, or an inactive channel.
RequestFails(c) ==
  /\ at[c] \in {"authorizing", "asserting", "reading", "writing", "paging"}
  /\ Return(c, Failed)
  /\ UNCHANGED <<saleor, call, read, search, delivered>>

\* The caller has heard enough and may ask something else.
Forget(c) ==
  /\ at[c] = "idle" /\ told[c] # NoAnswer
  /\ call' = [call EXCEPT ![c] = Nothing] /\ told' = [told EXCEPT ![c] = NoAnswer]
  /\ read' = [read EXCEPT ![c] = Nothing] /\ search' = [search EXCEPT ![c] = NoSearch]
  /\ delivered' = [delivered EXCEPT ![c] = {}]
  /\ UNCHANGED <<saleor, at>>

-----------------------------------------------------------------------------
(* get_my_order                                                            *)

\* assert_order_ownership, called by the policy and again by the service.
AssertOwnership(c, from, to) ==
  /\ Asks(c, "get_my_order") /\ at[c] = from
  /\ IF owner[call[c].order] = call[c].identity THEN GoOn(c, to) ELSE Return(c, Denied)
  /\ UNCHANGED <<saleor, call, read, search, delivered>>

RequireToolAccess(c) == AssertOwnership(c, "authorizing", "asserting")
GetCustomerOrder(c) == AssertOwnership(c, "asserting", "reading")

\* The order as it was read belongs to the customer, too.
BelongsTo(c, user) == user = call[c].identity

ReadOrder(c) ==
  /\ Asks(c, "get_my_order") /\ at[c] = "reading"
  /\ LET user == owner[call[c].order]
     IN /\ read' = [read EXCEPT ![c] = user]
        /\ Return(c, IF BelongsTo(c, user) THEN Ok(call[c].order) ELSE Denied)
  /\ UNCHANGED <<saleor, call, search, delivered>>

-----------------------------------------------------------------------------
(* disable_promotion and update_promotion                                  *)

Earlier(a, b) == IF a <= b THEN a ELSE b
Ended(s) == s.end # Nothing /\ s.end <= clock

ReadPromotion(c) ==
  /\ Asks(c, "disable_promotion") /\ at[c] = "reading"
  /\ read' = [read EXCEPT ![c] = schedule[call[c].promotion]]
  /\ GoOn(c, "deciding")
  /\ UNCHANGED <<saleor, call, search, delivered>>

\* Slip: only the end is moved.
CutShort(s) == [start |-> s.start, end |-> clock]

\* What disable_promotion sends: the promotion has ended now, and started
\* before that even if it was planned for later.
Disabled(s) == [start |-> Earlier(s.start, clock - 1), end |-> clock]

\* The schedule was read; a promotion that has ended is left as it is.
Decide(c) ==
  /\ at[c] = "deciding"
  /\ IF Ended(read[c])
     THEN Return(c, Ok(read[c])) /\ UNCHANGED call
     ELSE /\ call' = [call EXCEPT ![c] =
                         [what |-> "disable_promotion", promotion |-> call[c].promotion,
                          dates |-> Disabled(read[c])]]
          /\ GoOn(c, "writing")
  /\ UNCHANGED <<saleor, read, search, delivered>>

Valid(s) == s.end = Nothing \/ s.start < s.end

\* Saleor takes the dates, or refuses them; its answer may be lost.
WritePromotion(c) ==
  /\ at[c] = "writing"
  /\ IF Valid(call[c].dates)
     THEN /\ schedule' = [schedule EXCEPT ![call[c].promotion] = call[c].dates]
          /\ \E a \in {Ok(call[c].dates), Failed} : Return(c, a)
     ELSE Return(c, [kind |-> "refused"]) /\ UNCHANGED schedule
  /\ UNCHANGED <<clock, owner, call, read, search, delivered>>

-----------------------------------------------------------------------------
(* resolve_variant                                                         *)

Pages == [items : SUBSET Variants, foreign : BOOLEAN, next : BOOLEAN,
          cursor : Cursors \cup {Nothing}]

\* A cursor that leads nowhere or back, or too many pages (each but the last
\* has added a cursor).
LeadsNowhere(c, page) ==
  \/ page.cursor = Nothing \/ page.cursor \in search[c].seen
  \/ Cardinality(search[c].seen) + 1 = MaxPages

Match(matches) == Ok(CHOOSE v \in matches : TRUE)

\* Slip: the search ends with the first variant that fits.
FirstFit(c, page, matches) ==
  IF page.foreign THEN Failed
  ELSE IF matches # {} THEN Match(matches)
  ELSE IF ~page.next \/ LeadsNowhere(c, page) THEN Failed
  ELSE NoAnswer

\* Slip: a server that sends the same cursor again is asked again.
AnyCursor(c, page, matches) ==
  IF page.foreign \/ Cardinality(matches) > 1 THEN Failed
  ELSE IF page.next THEN NoAnswer
  ELSE IF matches = {} THEN Failed ELSE Match(matches)

\* What the search says after a page, if it is over: a variant of another
\* product, an ambiguous selection, the last page, or pages that lead nowhere.
Verdict(c, page, matches) ==
  IF page.foreign \/ Cardinality(matches) > 1 THEN Failed
  ELSE IF page.next THEN IF LeadsNowhere(c, page) THEN Failed ELSE NoAnswer
  ELSE IF matches = {} THEN Failed ELSE Match(matches)

Page(c) ==
  /\ at[c] = "paging"
  /\ \E page \in Pages :
       LET matches == search[c].matches \cup (page.items \cap Fitting)
           verdict == Verdict(c, page, matches)
       IN /\ search' = [search EXCEPT ![c] =
                          [matches |-> matches, cursor |-> page.cursor,
                           seen |-> @.seen \cup ({page.cursor} \ {Nothing}),
                           more |-> page.next]]
          /\ delivered' = [delivered EXCEPT ![c] = @ \cup page.items]
          /\ IF verdict = NoAnswer THEN GoOn(c, "paging") ELSE Return(c, verdict)
  /\ UNCHANGED <<saleor, call, read>>

-----------------------------------------------------------------------------
(* Saleor and time.                                                        *)

Reassign(o, u) ==
  /\ owner[o] # u
  /\ owner' = [owner EXCEPT ![o] = u]
  /\ UNCHANGED <<clock, schedule, calls>>

Reschedule(p, s) ==
  /\ schedule[p] # s
  /\ schedule' = [schedule EXCEPT ![p] = s]
  /\ UNCHANGED <<clock, owner, calls>>

Tick ==
  /\ clock < MaxClock
  /\ clock' = clock + 1
  /\ UNCHANGED <<owner, schedule, calls>>

Step(c) ==
  \/ RequestFails(c)
  \/ RequireToolAccess(c) \/ GetCustomerOrder(c) \/ ReadOrder(c)
  \/ ReadPromotion(c) \/ Decide(c) \/ WritePromotion(c)
  \/ Page(c)

SaleorNext ==
  \/ \E c \in Callers : Step(c) \/ Forget(c) \/ \E r \in Requests : Call(c, r)
  \/ \E o \in Orders, u \in Users : Reassign(o, u)
  \/ \E p \in Promotions, s \in Schedules : Reschedule(p, s)
  \/ Tick

SaleorSpec == SaleorInit /\ [][SaleorNext]_saleorVars

\* Every request ends: SaleorGraphQLClient.call has a timeout.
SaleorFairness == \A c \in Callers : WF_saleorVars(Step(c))

SaleorFairSpec == SaleorSpec /\ SaleorFairness

-----------------------------------------------------------------------------
(* Properties.                                                             *)

\* What a step may say to who disables a promotion.
HasEnded(c) ==
  Asks(c, "disable_promotion") /\ told[c] = NoAnswer =>
    /\ told'[c].kind # "refused"
    /\ told'[c].kind = "ok" =>
         \/ Ended(schedule[call[c].promotion])'
         \/ schedule[call[c].promotion] # read[c]

\* disable_promotion is never refused for the dates it computes, and when it
\* reports success the promotion has ended, unless somebody has given it other
\* dates since it was read.
DisablingEnds == [][\A c \in Callers : HasEnded(c)]_saleorVars

\* resolve_variant never selects an arbitrary first match: the variant it
\* returns is the only one that fits of all that it was sent, and the list was
\* read to its end.
OnlyMatchIsSelected ==
  \A c \in Callers :
    Asks(c, "resolve_variant") /\ told[c].kind = "ok" =>
      delivered[c] \cap Fitting = {told[c].value} /\ ~search[c].more

\* Every call is answered, whatever pages the server sends.
CallsAreAnswered == \A c \in Callers : at[c] # "idle" ~> at[c] = "idle"
=============================================================================
