---------------------------------- MODULE Binding ----------------------------------
(***************************************************************************)
(* Who may see and pay the bills of a house: owners grant their phone      *)
(* number (bindPhone in auth.service.ts), administrators add and remove    *)
(* the numbers of the house (house-contacts.controller.ts) or import them  *)
(* (houses.controller.ts), owners apply and administrators review and      *)
(* revoke (owner-houses.controller.ts, bindings.controller.ts), owners     *)
(* delete their account (owner-account.service.ts).  All of them meet in   *)
(* applyPhoneMatch, grantContact and revokeContact                         *)
(* (binding-sync.service.ts).                                              *)
(*                                                                         *)
(* These three read bindings, and the users of a number, in a snapshot and *)
(* write what they decided later, WHERE id and nothing else: a read and a  *)
(* write here are two steps, and anything may come between.  A row written *)
(* in a transaction is locked until its end and not seen before, so the    *)
(* write and the commit are one step.  The row of a number in houseContact *)
(* is locked from the first statement on (MayInsert, MayDelete).           *)
(*                                                                         *)
(* One house; the rows of different houses do not meet.  A user has one    *)
(* binding (unique key).  A change of the owner's number of a house is a   *)
(* removal and an addition in one transaction: two requests here.  An      *)
(* import binds the users it finds one after the other: one request per    *)
(* user here.  Left out: names, relations, dates, reasons, and the tenant  *)
(* that is out of business, which acts like a closed channel.              *)
(***************************************************************************)
EXTENDS FiniteSets

CONSTANTS
  Users,    \* WeChat users
  Phones,   \* phone numbers
  Handlers, \* requests of owners and administrators that take several steps
  NoPhone,
  NoUser

ASSUME BindingAssumption == NoPhone \notin Phones /\ NoUser \notin Users

VARIABLES
  phoneMatch,   \* TenantBindingConfig.phoneMatch
  needsReview,  \* TenantBindingConfig.selfApplyNeedsApproval
  phoneOf,      \* WxUser.phone
  deleted,      \* users with deletedAt
  contacts,     \* phone numbers of the house (HouseContact)
  binding,      \* HouseBinding of each user: status, source, whether reviewedBy is set
  stale,        \* history: users excused by BindingFollowsContactsUnlessCrossed
  handler       \* what each request is doing, and what it has read

bindingVars == <<phoneMatch, needsReview, phoneOf, deleted, contacts, binding, stale, handler>>

HandlerSteps == {"idle", "match", "existing", "sync", "write", "apply", "grantOf", "grant", "bind",
                 "release", "holders"}
\* create, change: users read without a row, and with one this request will overwrite.
\* undecided (history): those of change with neither an application nor a review when read.
HandlerRecords == [step : HandlerSteps, user : Users \cup {NoUser}, phone : Phones \cup {NoPhone},
                   matched : BOOLEAN, had : BOOLEAN, exists : BOOLEAN, auto : BOOLEAN,
                   create : SUBSET Users, change : SUBSET Users, undecided : SUBSET Users]
Waiting == [step |-> "idle", user |-> NoUser, phone |-> NoPhone,
            matched |-> FALSE, had |-> FALSE, exists |-> FALSE, auto |-> FALSE,
            create |-> {}, change |-> {}, undecided |-> {}]
NoBinding == [status |-> "NONE", source |-> "APPLY", reviewed |-> FALSE]

BindingTypeOK ==
  /\ phoneMatch \in BOOLEAN /\ needsReview \in BOOLEAN
  /\ phoneOf \in [Users -> Phones \cup {NoPhone}]
  /\ deleted \in SUBSET Users /\ contacts \in SUBSET Phones /\ stale \in SUBSET Users
  /\ binding \in [Users -> [status : {"NONE", "PENDING", "ACTIVE", "REJECTED"},
                            source : {"PHONE_MATCH", "APPLY"}, reviewed : BOOLEAN]]
  /\ handler \in [Handlers -> HandlerRecords]

BindingInit ==
  /\ phoneMatch = TRUE /\ needsReview = TRUE
  /\ phoneOf = [u \in Users |-> NoPhone]
  /\ deleted = {} /\ contacts = {} /\ stale = {}
  /\ binding = [u \in Users |-> NoBinding]
  /\ handler = [h \in Handlers |-> Waiting]

HandlerAt(h, step) == handler[h].step = step
UserOf(h)          == handler[h].user
Finish(h)          == handler' = [handler EXCEPT ![h] = Waiting]

\* Requests whose write may bind user u by a number read before: a bindPhone, an import, a grant.
BindsLater(h, u) ==
  \/ handler[h].step \in {"match", "existing", "sync", "write"} /\ UserOf(h) = u
  \/ handler[h].step = "bind" /\ u \in handler[h].create \cup handler[h].change

-----------------------------------------------------------------------------
(* binding-sync.service.ts *)

\* Fault: a match overrides what administrators decided.
DecidedNever(u) == FALSE
\* An application or a review is never overridden by a phone number.
Decided(u) == binding[u].status # "NONE" /\ (binding[u].source = "APPLY" \/ binding[u].reviewed)

\* applyPhoneMatch for one house up to its writes: of the users S, who gets a row and whose
\* row is revived.
Unbound(S)   == {u \in S : binding[u].status = "NONE"}
Revivable(S) == {u \in S : binding[u].status \notin {"NONE", "ACTIVE"} /\ ~Decided(u)}
ReadsFor(h, S) ==
  [handler[h] EXCEPT !.create = Unbound(S), !.change = Revivable(S),
                     !.undecided = {u \in Revivable(S) : binding[u].source # "APPLY" /\ ~binding[u].reviewed}]

\* ... and the writes: a row that exists by now refuses the insert (unique key, everything is
\* rolled back: HandlerDies); the update asks for the id alone, whatever the row is by now.
Binds(h) ==
  /\ \A u \in handler[h].create : binding[u].status = "NONE"
  /\ binding' = [u \in Users |-> IF u \in handler[h].create \cup handler[h].change
                                 THEN [status |-> "ACTIVE", source |-> "PHONE_MATCH", reviewed |-> binding[u].reviewed]
                                 ELSE binding[u]]

\* The row of number p.  An insert holds it, or shares it when it is there; a delete holds it,
\* or shares the gap when it is not.
Sharing(h, p, step) ==
  \A g \in Handlers \ {h} : handler[g].step \in {"bind", "release"} /\ handler[g].phone = p => handler[g].step = step
Unshared(h, p) == \A g \in Handlers \ {h} : handler[g].step \in {"bind", "release"} => handler[g].phone # p
MayInsert(h, p) == IF p \in contacts THEN Sharing(h, p, "bind") ELSE Unshared(h, p)
MayDelete(h, p) == IF p \in contacts THEN Unshared(h, p) ELSE Sharing(h, p, "release")

\* grantContact up to its writes: the number is inserted, its users and their bindings are
\* read.  A number that is listed already is no reason to stop.
ReadGrant(h, p) ==
  /\ MayInsert(h, p)
  /\ handler' = [handler EXCEPT ![h] =
       [ReadsFor(h, {u \in Users : phoneOf[u] = p /\ u \notin deleted}) EXCEPT !.step = "bind", !.phone = p]]
  /\ UNCHANGED <<phoneMatch, needsReview, phoneOf, deleted, contacts, binding, stale>>

CommitGrant(h) ==
  /\ HandlerAt(h, "bind")
  /\ Binds(h)
  /\ contacts' = contacts \cup {handler[h].phone}
  /\ Finish(h)
  /\ UNCHANGED <<phoneMatch, needsReview, phoneOf, deleted, stale>>

\* add: the error for a listed number is thrown when the transaction has committed.
AddContact(h, p) == HandlerAt(h, "idle") /\ ReadGrant(h, p)

\* Fault: the bindings are left to the owner's next bindPhone.
HolderOfNever(u, p) == FALSE
HolderOf(u, p) == phoneOf[u] = p

\* revokeContact up to its writes: the number is deleted, the bindings it carries are read.
\* Requests that have read the old list are not stopped by it.
RemoveContact(h, p) ==
  /\ HandlerAt(h, "idle") /\ MayDelete(h, p)
  /\ handler' = [handler EXCEPT ![h] = [Waiting EXCEPT !.step = "release", !.phone = p,
                   !.change = {u \in Users : HolderOf(u, p) /\ binding[u].status = "ACTIVE"}]]
  /\ stale' = stale \cup {u \in Users : \E g \in Handlers : UserOf(g) = u /\ handler[g].phone = p /\ handler[g].matched}
  /\ UNCHANGED <<phoneMatch, needsReview, phoneOf, deleted, contacts, binding>>

CommitRemoval(h) ==
  /\ HandlerAt(h, "release")
  /\ contacts' = contacts \ {handler[h].phone}
  /\ binding' = [u \in Users |-> IF u \in handler[h].change THEN [binding[u] EXCEPT !.status = "REJECTED"] ELSE binding[u]]
  /\ Finish(h)
  /\ UNCHANGED <<phoneMatch, needsReview, phoneOf, deleted, stale>>

SetConfig ==
  /\ \/ phoneMatch' = ~phoneMatch /\ UNCHANGED needsReview
     \/ needsReview' = ~needsReview /\ UNCHANGED phoneMatch
  /\ UNCHANGED <<phoneOf, deleted, contacts, binding, stale, handler>>

-----------------------------------------------------------------------------
(* bindPhone *)

\* The update of the number, before and outside the transaction.  The guard has let the
\* request in earlier, so the account may be deleted by now.
BindPhone(h, u, p) ==
  /\ HandlerAt(h, "idle")
  /\ phoneOf' = [phoneOf EXCEPT ![u] = p]
  /\ stale' = IF \E g \in Handlers : BindsLater(g, u) THEN stale \cup {u} ELSE stale
  /\ handler' = [handler EXCEPT ![h] = [Waiting EXCEPT !.step = "match", !.user = u, !.phone = p]]
  /\ UNCHANGED <<phoneMatch, needsReview, deleted, contacts, binding>>

\* The number is gone, or its removal under way: who binds by it now may come too late.
LeavingOrGone(p) == p \notin contacts \/ \E g \in Handlers : HandlerAt(g, "release") /\ handler[g].phone = p

\* houseContact.findMany
MatchContacts(h) ==
  LET p == handler[h].phone
      matched == phoneMatch /\ p \in contacts IN
  /\ HandlerAt(h, "match")
  /\ handler' = [handler EXCEPT ![h].step = "existing", ![h].matched = matched]
  /\ stale' = IF matched /\ LeavingOrGone(p) THEN stale \cup {UserOf(h)} ELSE stale
  /\ UNCHANGED <<phoneMatch, needsReview, phoneOf, deleted, contacts, binding>>

IsMatch(u) == binding[u].source = "PHONE_MATCH" /\ binding[u].status = "ACTIVE"

\* houseBinding.findMany
ReadExisting(h) ==
  /\ HandlerAt(h, "existing")
  /\ handler' = [handler EXCEPT ![h].step = "sync", ![h].had = IsMatch(UserOf(h))]
  /\ UNCHANGED <<phoneMatch, needsReview, phoneOf, deleted, contacts, binding, stale>>

\* The transaction of a number that matched, or the import of one: applyPhoneMatch.
ReadBinding(h) ==
  /\ HandlerAt(h, "sync") /\ handler[h].matched
  /\ handler' = [handler EXCEPT ![h] = [ReadsFor(h, {UserOf(h)}) EXCEPT !.step = "write"]]
  /\ UNCHANGED <<phoneMatch, needsReview, phoneOf, deleted, contacts, binding, stale>>

WriteBinding(h) ==
  /\ HandlerAt(h, "write")
  /\ Binds(h)
  /\ Finish(h)
  /\ UNCHANGED <<phoneMatch, needsReview, phoneOf, deleted, contacts, stale>>

\* The transaction of a number that did not: a match read before is released, if it is one still.
ReleaseMatch(h) ==
  LET u == UserOf(h) IN
  /\ HandlerAt(h, "sync") /\ ~handler[h].matched
  /\ binding' = [binding EXCEPT ![u].status = IF handler[h].had /\ IsMatch(u) THEN "REJECTED" ELSE @]
  /\ Finish(h)
  /\ UNCHANGED <<phoneMatch, needsReview, phoneOf, deleted, contacts, stale>>

-----------------------------------------------------------------------------
(* importContacts: no transaction holds its calls together *)

\* createMany with skipDuplicates
ImportContact(h, p) ==
  /\ HandlerAt(h, "idle") /\ MayInsert(h, p)
  /\ contacts' = contacts \cup {p}
  /\ handler' = [handler EXCEPT ![h] = [Waiting EXCEPT !.step = "holders", !.phone = p]]
  /\ UNCHANGED <<phoneMatch, needsReview, phoneOf, deleted, binding, stale>>

\* wxUser.findMany; a user found is bound like one that matched.
FindHolder(h, u) ==
  LET p == handler[h].phone IN
  /\ HandlerAt(h, "holders")
  /\ phoneOf[u] = p /\ u \notin deleted
  /\ handler' = [handler EXCEPT ![h].step = "sync", ![h].user = u, ![h].matched = TRUE]
  /\ stale' = IF LeavingOrGone(p) THEN stale \cup {u} ELSE stale
  /\ UNCHANGED <<phoneMatch, needsReview, phoneOf, deleted, contacts, binding>>

NoHolder(h) ==
  /\ HandlerAt(h, "holders")
  /\ \A u \in Users : phoneOf[u] = handler[h].phone => u \in deleted
  /\ Finish(h)
  /\ UNCHANGED <<phoneMatch, needsReview, phoneOf, deleted, contacts, binding, stale>>

-----------------------------------------------------------------------------
(* Applications *)

\* applyBinding up to its write; an application or a binding that stands is refused.
BeginApply(h, u) ==
  /\ HandlerAt(h, "idle") /\ u \notin deleted
  /\ binding[u].status \in {"NONE", "REJECTED"}
  /\ handler' = [handler EXCEPT ![h] = [Waiting EXCEPT !.step = "apply", !.user = u,
                   !.exists = (binding[u].status # "NONE"), !.auto = ~needsReview]]
  /\ UNCHANGED <<phoneMatch, needsReview, phoneOf, deleted, contacts, binding, stale>>

\* A first application is an insert, refused if there is a row by now; a new one is an
\* update WHERE id, whatever has become of the row.
Apply(h) ==
  LET u == UserOf(h)
      status == IF handler[h].auto THEN "ACTIVE" ELSE "PENDING" IN
  /\ HandlerAt(h, "apply")
  /\ IF handler[h].exists \/ binding[u].status = "NONE"
     THEN /\ binding' = [binding EXCEPT ![u].status = status, ![u].source = "APPLY"]
          /\ IF handler[h].auto THEN handler' = [handler EXCEPT ![h].step = "grantOf"] ELSE Finish(h)
     ELSE Finish(h) /\ UNCHANGED binding
  /\ UNCHANGED <<phoneMatch, needsReview, phoneOf, deleted, contacts, stale>>

\* review: an update WHERE status = PENDING; the contact follows in a transaction of its own.
Review(h, u, approve) ==
  /\ HandlerAt(h, "idle") /\ binding[u].status = "PENDING"
  /\ binding' = [binding EXCEPT ![u].status = IF approve THEN "ACTIVE" ELSE "REJECTED", ![u].reviewed = TRUE]
  /\ handler' = IF approve THEN [handler EXCEPT ![h].step = "grantOf", ![h].user = u] ELSE handler
  /\ UNCHANGED <<phoneMatch, needsReview, phoneOf, deleted, contacts, stale>>

ReadApplicant(h) ==
  LET p == phoneOf[UserOf(h)] IN
  /\ HandlerAt(h, "grantOf")
  /\ IF p = NoPhone THEN Finish(h)
     ELSE handler' = [handler EXCEPT ![h].step = "grant", ![h].phone = p]
  /\ UNCHANGED <<phoneMatch, needsReview, phoneOf, deleted, contacts, binding, stale>>

GrantContact(h) == HandlerAt(h, "grant") /\ ReadGrant(h, handler[h].phone)

\* revoke: an update WHERE status = ACTIVE
Revoke(u) ==
  /\ binding[u].status = "ACTIVE"
  /\ binding' = [binding EXCEPT ![u].status = "REJECTED", ![u].reviewed = TRUE]
  /\ UNCHANGED <<phoneMatch, needsReview, phoneOf, deleted, contacts, stale, handler>>

DeleteAccount(u) ==
  /\ u \notin deleted
  /\ deleted' = deleted \cup {u}
  /\ phoneOf' = [phoneOf EXCEPT ![u] = NoPhone]
  /\ binding' = [binding EXCEPT ![u].status = IF @ \in {"ACTIVE", "PENDING"} THEN "REJECTED" ELSE @]
  /\ stale' = IF \E h \in Handlers : BindsLater(h, u) THEN stale \cup {u} ELSE stale
  /\ UNCHANGED <<phoneMatch, needsReview, contacts, handler>>

\* A call throws or the process dies: what was written stays.
HandlerDies(h) ==
  /\ ~HandlerAt(h, "idle")
  /\ stale' = IF handler[h].step \in {"match", "existing", "sync", "write"} THEN stale \cup {UserOf(h)} ELSE stale
  /\ Finish(h)
  /\ UNCHANGED <<phoneMatch, needsReview, phoneOf, deleted, contacts, binding>>

BindingNext ==
  \/ SetConfig
  \/ \E u \in Users : Revoke(u) \/ DeleteAccount(u)
  \/ \E h \in Handlers :
       \/ MatchContacts(h) \/ ReadExisting(h) \/ ReadBinding(h) \/ WriteBinding(h) \/ ReleaseMatch(h)
       \/ NoHolder(h) \/ Apply(h) \/ ReadApplicant(h) \/ GrantContact(h)
       \/ CommitGrant(h) \/ CommitRemoval(h) \/ HandlerDies(h)
       \/ \E p \in Phones : AddContact(h, p) \/ RemoveContact(h, p) \/ ImportContact(h, p)
       \/ \E u \in Users : \/ BeginApply(h, u) \/ FindHolder(h, u)
                           \/ \E approve \in BOOLEAN : Review(h, u, approve)
                           \/ \E p \in Phones : BindPhone(h, u, p)

BindingSpec == BindingInit /\ [][BindingNext]_bindingVars

-----------------------------------------------------------------------------
(* Properties *)

BindingPhone(u) == \E h \in Handlers : UserOf(h) = u /\ handler[h].step \in {"match", "existing", "sync", "write"}

\* Who is bound by a phone number has a number of the house: the number removed or the
\* user's number changed, the binding goes.  Excused are users somebody was binding, by what
\* had been read before, when the number was removed, the user changed it or the account was
\* deleted (bindPhone in auth.service.ts, grantContact, importContacts), and those whose
\* bindPhone was cut short.
BindingFollowsContactsUnlessCrossed ==
  \A u \in Users \ stale : IsMatch(u) /\ ~BindingPhone(u) => phoneOf[u] \in contacts

Applies(h, u) == HandlerAt(h, "apply") /\ UserOf(h) = u /\ ~HandlerAt(h, "apply")'

\* A rejection or a revocation by an administrator ends only through a new application of
\* the owner, never through a phone number, whichever of the four ways it comes in (the
\* class comment of BindingSyncService); unless the number's request had read the binding
\* before anybody decided on it, and writes now: the comment has no such exception, but the
\* row is read in applyPhoneMatch and updated WHERE id.
DecisionIsNotOverruledUnlessCrossed ==
  [][\A u \in Users :
       /\ binding[u].status = "REJECTED" /\ (binding[u].source = "APPLY" \/ binding[u].reviewed)
       /\ binding'[u].status # "REJECTED"
       => \E h \in Handlers : Applies(h, u) \/ (u \in handler[h].undecided /\ HandlerAt(h, "idle")')]_bindingVars

=============================================================================
