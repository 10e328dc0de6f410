-------------------------- MODULE DirectoryObjects --------------------------
(***************************************************************************)
(* One resource address of one of the kinds whose calls are synchronous    *)
(* and whose reads find an object by its id in a list, or the data source  *)
(* that lists a catalogue, next to everybody else who adds to the list and *)
(* takes from it.                                                          *)
(*                                                                         *)
(* A call and the effect of its answer are one step.  Users are deleted    *)
(* softly; a membership is a pairing that only its group's record shows;   *)
(* address and service objects come in one answer and cannot be deleted    *)
(* while a firewall rule names them.                                       *)
(***************************************************************************)
EXTENDS CollectionWalks

CONSTANTS
  MaxVal,     \* the values an attribute is configured with are 1..MaxVal
  MaxId,      \* bound: the ids the server has to give
  MaxFaults,  \* bound: failed, lost, refused, interrupted or empty answers
  MaxEdits    \* bound: edits of the configuration, the console and imports

ASSUME DirectoryAssumption ==
  /\ MaxVal \in Nat \ {0} /\ MaxId \in Nat /\ MaxId >= 2 * PageSize
  /\ MaxFaults \in Nat /\ MaxEdits \in Nat

VARIABLES
  kind,     \* the kind of object at the address
  user,     \* the user of a membership exists
  state,    \* Terraform's record: [id, tainted, val, note]
  want,     \* the configuration: [val, note], val 0 when it is not declared
  op,       \* the operation Terraform core is running, and its handler
  excused,  \* history: the objects of ours the operator was told of, or
            \* that a walk could not see
  result,   \* the last outcome of the data source: [rows, total, warned]
  faults, edits

vars == <<list, dialect, walk, kind, user, state, want, op, excused, result,
          faults, edits>>

bounds == <<faults, edits>>
server == <<list, user>>

Objects == {"object_addresses", "object_services"}
(* A user whose configuration has, of what no read tells, only what a      *)
(* suppression covers (the invitation, the identity provider), or also     *)
(* what none does: email_verified, access groups, a profile.               *)
Users == {"user", "user_extras"}
Directory == Users \cup {"group", "group_membership"}
Kind == Objects \cup Directory \cup {"updatable_objects"}

(* They have attributes no read tells: a description, an invitation, and   *)
(* for the second kind of users the other three.                           *)
WriteOnly == Users \cup {"group"}

(* The note of a configuration that leaves such an attribute out.          *)
LeftOut == 1

NoId == 0

(* The record of an object on the server.  over: a user that is deleted;   *)
(* tied: a group that has the user, an object that a firewall rule names;  *)
(* mine: the object, or its pairing, is the provider's work.               *)
Object ==
  [id : 1..MaxId, val : 1..MaxVal, note : 1..MaxVal,
   over : BOOLEAN, tied : BOOLEAN, mine : BOOLEAN]

Record ==
  [id : 0..MaxId, tainted : BOOLEAN, val : Nat, note : 0..MaxVal]

NoRecord == [id |-> NoId, tainted |-> FALSE, val |-> 0, note |-> 0]

Operation ==
  [pc : {"idle", "create", "page", "update", "delete", "catalogue"},
   kind : {"none", "create", "update", "replace", "destroy", "plan", "import"},
   id : 0..MaxId]

Idle == [pc |-> "idle", kind |-> "none", id |-> NoId]

Live(o) == ~o.over /\ (kind = "group_membership" => o.tied)

(* What a read shows of an object; a membership shows its group.           *)
Val(o) == IF kind = "group_membership" THEN o.id ELSE o.val

On(seq, id) == {o \in ToSet(seq) : o.id = id}

Ours(seq) == {o.id : o \in {p \in ToSet(seq) : p.mine /\ Live(p)}}

TypeOK ==
  /\ list \in Seq(Object)
  /\ \A i, j \in DOMAIN list : list[i].id = list[j].id => i = j
  /\ dialect \in Dialect
  /\ kind # "updatable_objects" => dialect = Documented
  /\ Walking(walk) /\ ToSet(walk.rows) \subseteq Object
  /\ kind \in Kind /\ user \in BOOLEAN
  /\ state \in Record /\ (state.id = NoId => state = NoRecord)
  /\ want \in [val : 0..MaxVal, note : 1..MaxVal]
  /\ op \in Operation
  /\ op.pc \in {"update", "delete"} => op.id = state.id /\ op.id # NoId
  /\ op.kind \in {"create", "import"} => state = NoRecord
  /\ excused \subseteq 1..MaxId
  /\ faults \in 0..MaxFaults /\ edits \in 0..MaxEdits

NotRead == [rows |-> <<>>, total |-> {}, warned |-> TRUE]

(* n objects of the console.                                               *)
Found(n, tied) ==
  [i \in 1..n |-> [id |-> i, val |-> MaxVal, note |-> 1, over |-> FALSE,
                   tied |-> tied, mine |-> FALSE]]

Resource(k) ==
  /\ kind = k
  /\ \E tied \in BOOLEAN : list = Found(2, tied)
  /\ dialect = Documented
  /\ want \in [val : 0..MaxVal,
              note : IF k = "user_extras" THEN 1..MaxVal ELSE {LeftOut}]

DataSource ==
  /\ kind = "updatable_objects"
  /\ \E n \in 0..2 * PageSize : list = Found(n, FALSE)
  /\ dialect \in Dialect
  /\ want = [val |-> 0, note |-> 1]

Init ==
  /\ DataSource \/ \E k \in Objects \cup Directory : Resource(k)
  /\ walk = NoWalk
  /\ user = TRUE /\ state = NoRecord
  /\ op = Idle /\ excused = {} /\ result = NotRead
  /\ faults = 0 /\ edits = 0

Fault == faults < MaxFaults /\ faults' = faults + 1 /\ UNCHANGED edits
Edit == edits < MaxEdits /\ edits' = edits + 1 /\ UNCHANGED faults

-----------------------------------------------------------------------------
(* Terraform core and the SDK                                              *)

(* Mutant: an attribute that a read cannot tell counts as empty.           *)
NeverSuppressed(s) == FALSE

suppressDiffOnEmptyOldValue(s) == s.note = 0 /\ s.id # NoId

(* Only a group's description, the invitation and the identity provider of *)
(* a user have the suppression; the other attributes of a user compare     *)
(* what is not known as left out.                                          *)
NoteDiffers(s) ==
  IF kind = "user_extras"
  THEN (IF s.note = 0 THEN LeftOut ELSE s.note) # want.note
  ELSE ~suppressDiffOnEmptyOldValue(s) /\ s.note # want.note

(* Nothing of these kinds can be updated: a difference is a replacement.   *)
ForcesNew(s) ==
  /\ kind \in Directory
  /\ s.val # want.val \/ (kind \in WriteOnly /\ NoteDiffers(s))

Replaced(s) == s.tainted \/ ForcesNew(s)

Does(pc, name, id) == [pc |-> pc, kind |-> name, id |-> id]

Planned(s) ==
  CASE want.val # 0 /\ s.id = NoId -> Does("create", "create", NoId)
    [] want.val = 0 /\ s.id # NoId -> Does("delete", "destroy", s.id)
    [] want.val # 0 /\ s.id # NoId /\ Replaced(s) ->
         Does("delete", "replace", s.id)
    [] want.val # 0 /\ s.id # NoId /\ ~Replaced(s) /\ s.val # want.val ->
         Does("update", "update", s.id)
    [] OTHER -> Idle

(* An error names what has not been recorded.                              *)
Told(s) == excused' = (excused \cup Ours(list')) \ {s.id}

(* Mutant: whatever a failed create leaves is tainted, an id or not.       *)
TaintsWithoutId ==
  /\ state' = IF op.kind = "create"
              THEN [NoRecord EXCEPT !.id = op.id, !.tainted = TRUE]
              ELSE state
  /\ op' = Idle /\ walk' = NoWalk
  /\ Told(state')

(* An Error of a create taints the id it has set, and no attribute is      *)
(* recorded (d.Partial); any other leaves the prior record.                *)
Errs ==
  /\ state' = IF op.kind = "create" /\ op.id # NoId
              THEN [NoRecord EXCEPT !.id = op.id, !.tainted = TRUE]
              ELSE state
  /\ op' = Idle /\ walk' = NoWalk
  /\ Told(state')

(* The SDK refuses a create or an update that leaves no record; a refresh  *)
(* that leaves none is a deletion outside Terraform.                       *)
Returns(s, missed) ==
  /\ state' = s
  /\ op' = IF op.kind = "plan" \/ (op.pc = "delete" /\ op.kind = "replace")
           THEN Planned(s) ELSE Idle
  /\ walk' = NoWalk
  /\ IF op.kind \in {"create", "update", "import"} /\ s.id = NoId THEN Told(s)
     ELSE excused' = (excused \cup missed) \ {s.id}

Apply ==
  /\ op = Idle /\ kind # "updatable_objects"
  /\ op' = IF state.id = NoId THEN Planned(state)
           ELSE Does("page", "plan", state.id)
  /\ op' # op
  /\ walk' = IF op'.pc = "page" THEN AtPageOne ELSE walk
  /\ UNCHANGED <<server, dialect, kind, state, want, excused, result, bounds>>

(* terraform apply -refresh=false, or of a saved plan.                     *)
ApplyStale ==
  /\ op = Idle /\ state.id # NoId /\ Planned(state) # Idle
  /\ op' = Planned(state)
  /\ UNCHANGED <<server, dialect, walk, kind, state, want, excused, result, bounds>>

EditConfig ==
  /\ op = Idle /\ kind # "updatable_objects"
  /\ Edit
  /\ want' \in [val : 0..MaxVal,
                note : IF kind \in WriteOnly THEN 1..MaxVal ELSE {1}]
  /\ want' # want
  /\ UNCHANGED <<server, dialect, walk, kind, state, op, excused, result>>

Import ==
  /\ op = Idle /\ kind # "updatable_objects" /\ state.id = NoId
  /\ Edit
  /\ \E o \in ToSet(list) : op' = Does("page", "import", o.id)
  /\ walk' = AtPageOne
  /\ UNCHANGED <<server, dialect, kind, state, want, excused, result>>

(* The process dies: core keeps the record of before the operation.        *)
Crash ==
  /\ op # Idle
  /\ Fault
  /\ UNCHANGED <<server, dialect, kind, state, want, result>>
  /\ op' = Idle /\ walk' = NoWalk
  /\ Told(state)

-----------------------------------------------------------------------------
(* Creates                                                                 *)

Used ==
  {o.id : o \in ToSet(list)} \cup {state.id, op.id} \cup excused

(* The id of an object that is gone and forgotten may come back.           *)
NewId == CHOOSE id \in 1..MaxId : id \notin Used

IdsLeft == \E id \in 1..MaxId : id \notin Used

ThenRead(id) == op' = [op EXCEPT !.pc = "page", !.id = id] /\ walk' = AtPageOne

CallFails(pc) ==
  /\ op.pc = pc
  /\ Fault
  /\ UNCHANGED <<server, dialect, kind, want, result>>
  /\ Errs

Posted ==
  /\ op.pc = "create" /\ IdsLeft
  /\ \E pos \in {1, Len(list) + 1} :
       list' = InsertAt(list, pos,
                 [id |-> NewId, val |-> want.val, note |-> want.note,
                  over |-> FALSE, tied |-> FALSE, mine |-> TRUE])
  /\ UNCHANGED <<user, dialect, kind, want, result>>

(* Mutant: no id in the reply leaves nothing to record, and no error.      *)
NoIdIsNoError ==
  /\ Fault /\ Posted
  /\ op' = Idle /\ walk' = NoWalk /\ UNCHANGED <<state, excused>>

NoIdIsAnError == Fault /\ Posted /\ Errs

Create ==
  \/ Posted /\ ThenRead(NewId) /\ UNCHANGED <<state, excused, bounds>>
  \/ Fault /\ Posted /\ Errs
  \/ CallFails("create")

resourceGroupCreate == kind = "group" /\ (Create \/ NoIdIsAnError)

(* An address can have one account, a deleted one included.                *)
Taken == \E o \in ToSet(list) : o.val = want.val

resourceUserCreate ==
  /\ kind \in Users
  /\ \/ Create \/ NoIdIsAnError
     \/ /\ op.pc = "create" /\ Taken
        /\ UNCHANGED <<server, dialect, kind, want, result, bounds>>
        /\ Errs

(* The empty id is set, and the read that follows looks for it.            *)
SetsWhateverId ==
  Fault /\ Posted /\ ThenRead(NoId) /\ UNCHANGED <<state, excused>>

resourceObjectAddressesCreate ==
  kind = "object_addresses" /\ (Create \/ SetsWhateverId)

resourceObjectServicesCreate ==
  kind = "object_services" /\ (Create \/ SetsWhateverId)

Paired(id, tied) ==
  \E i \in DOMAIN list :
    /\ list[i].id = id
    /\ list' = [list EXCEPT ![i].tied = tied, ![i].mine = tied]

AddGroupMember ==
  /\ op.pc = "create" /\ user /\ Paired(want.val, TRUE)
  /\ UNCHANGED <<user, dialect, kind, want, result>>

resourceGroupMembershipCreate ==
  /\ kind = "group_membership"
  /\ \/ AddGroupMember /\ ThenRead(want.val)
          /\ UNCHANGED <<state, excused, bounds>>
     \/ Fault /\ AddGroupMember /\ Errs
     \/ /\ op.pc = "create" /\ (~user \/ On(list, want.val) = {})
        /\ UNCHANGED <<server, dialect, kind, want, result, bounds>>
        /\ Errs
     \/ CallFails("create")

-----------------------------------------------------------------------------
(* Reads                                                                   *)

(* Address and service objects come in one answer.                         *)
Data == IF kind \in Objects THEN list ELSE Page(walk.page)

readByIDFromList == On(Data, op.id)

(* Mutant: the walk stops at the first page.                               *)
FirstPageOnly == TRUE

NoMorePages ==
  kind \in Objects \/ Data = <<>> \/ walk.page >= TotalPage

(* Only what a write set is known of an attribute that cannot be read.     *)
Shown(o) ==
  [id |-> o.id,
   tainted |-> op.kind = "plan" /\ state.tainted,
   val |-> Val(o),
   note |-> CASE op.kind = "import"              -> 0
              [] op.kind = "create"              -> want.note
              [] op.kind \notin {"import", "create"} -> state.note]

PageAnswered ==
  op.pc = "page" /\ UNCHANGED <<server, dialect, kind, want, result>>

(* Mutant: a record that is found is there.                                *)
RecordIsThere(o) == TRUE

Present(o) == Live(o)

Missed == IF walk.moved = "shrunk" THEN {op.id} ELSE {}

ReadsOn ==
  /\ readByIDFromList = {} /\ ~NoMorePages
  /\ walk' = [walk EXCEPT !.page = @ + 1]
  /\ UNCHANGED <<state, op, excused>>

ReadFinds ==
  \E o \in readByIDFromList :
    Returns(IF Present(o) THEN Shown(o) ELSE NoRecord, {})

ReadFindsNothing ==
  readByIDFromList = {} /\ NoMorePages /\ Returns(NoRecord, Missed)

(* A page without a body counts as the last one.                           *)
NullBody ==
  kind \in Directory /\ PageAnswered /\ Fault /\ Returns(NoRecord, {op.id})

Walk ==
  \/ PageAnswered /\ UNCHANGED bounds
       /\ (ReadsOn \/ ReadFinds \/ ReadFindsNothing)
  \/ NullBody
  \/ CallFails("page")

resourceGroupRead == kind = "group" /\ Walk
resourceUserRead == kind \in Users /\ Walk
resourceGroupMembershipRead == kind = "group_membership" /\ Walk
resourceObjectAddressesRead == kind = "object_addresses" /\ Walk
resourceObjectServicesRead == kind = "object_services" /\ Walk

-----------------------------------------------------------------------------
(* Updates                                                                 *)

Put ==
  \E i \in DOMAIN list :
    /\ op.pc = "update" /\ list[i].id = op.id
    /\ list' = [list EXCEPT ![i].val = want.val]
    /\ UNCHANGED <<user, dialect, kind, want, result>>

Update ==
  \/ Put /\ ThenRead(op.id) /\ UNCHANGED <<state, excused, bounds>>
  \/ Fault /\ Put /\ Errs
  \/ /\ op.pc = "update" /\ On(list, op.id) = {}
     /\ UNCHANGED <<server, dialect, kind, want, result, bounds>>
     /\ Errs
  \/ CallFails("update")

resourceObjectAddressesUpdate == kind = "object_addresses" /\ Update
resourceObjectServicesUpdate == kind = "object_services" /\ Update

-----------------------------------------------------------------------------
(* Deletes                                                                 *)

(* What the server makes of a delete of the object.                        *)
DeleteAnswer ==
  LET on == On(list, op.id)
      tied == \E o \in on : o.tied
  IN CASE on = {} \/ (kind = "group_membership" /\ ~user) -> "not_found"
       [] on # {} /\ kind \in Objects /\ tied -> "conflict"
       [] on # {} /\ kind = "group_membership" /\ user /\ ~tied ->
            "USER_ALREADY_NOT_IN_GROUP"
       [] OTHER -> "ok"

Deleted ==
  \E i \in DOMAIN list :
    /\ list[i].id = op.id
    /\ list' = CASE kind \in Users -> [list EXCEPT ![i].over = TRUE]
                 [] kind = "group_membership" ->
                      [list EXCEPT ![i].tied = FALSE, ![i].mine = FALSE]
                 [] OTHER -> RemoveAt(list, i)

(* Mutant: any conflict says that the pairing is gone.                     *)
AnyConflict(answer) == answer \in {"conflict", "USER_ALREADY_NOT_IN_GROUP"}

isMembershipAlreadyAbsent(answer) == answer = "USER_ALREADY_NOT_IN_GROUP"

DeleteTolerates(answer) ==
  \/ answer = "ok"
  \/ answer = "not_found" /\ kind # "object_services"
  \/ kind = "group_membership" /\ isMembershipAlreadyAbsent(answer)

DeleteReturns(answer) ==
  IF DeleteTolerates(answer) THEN Returns(NoRecord, {}) ELSE Errs

Delete ==
  /\ op.pc = "delete"
  /\ UNCHANGED <<user, dialect, kind, want, result>>
  /\ IF DeleteAnswer = "ok" THEN Deleted ELSE UNCHANGED list
  /\ \/ DeleteReturns(DeleteAnswer) /\ UNCHANGED bounds
     \/ Fault /\ Errs

(* A conflict of another kind, or a broken server.                         *)
DeleteRefused(answer) ==
  /\ op.pc = "delete"
  /\ Fault
  /\ UNCHANGED <<server, dialect, kind, want, result>>
  /\ DeleteReturns(answer)

DeleteAny == Delete \/ \E answer \in {"conflict", "broken"} : DeleteRefused(answer)

resourceGroupDelete == kind = "group" /\ DeleteAny
resourceUserDelete == kind \in Users /\ DeleteAny
resourceGroupMembershipDelete == kind = "group_membership" /\ DeleteAny
resourceObjectAddressesDelete == kind = "object_addresses" /\ DeleteAny
resourceObjectServicesDelete == kind = "object_services" /\ DeleteAny

-----------------------------------------------------------------------------
(* The data source                                                         *)

DataSourceStarts ==
  /\ kind = "updatable_objects" /\ op = Idle
  /\ op' = Does("catalogue", "plan", NoId) /\ walk' = AtPageOne
  /\ result' = NotRead
  /\ UNCHANGED <<server, dialect, kind, state, want, excused, bounds>>

CataloguePage ==
  /\ UNCHANGED bounds
  /\ \/ CatalogueGoesOn /\ UNCHANGED <<op, result>>
     \/ CatalogueEnds(result') /\ op' = Idle /\ walk' = NoWalk

(* An error gives no rows at all.                                          *)
CatalogueFails == Fault /\ op' = Idle /\ walk' = NoWalk /\ UNCHANGED result

dataSourceUpdatableObjectsRead ==
  /\ op.pc = "catalogue"
  /\ CataloguePage \/ CatalogueFails
  /\ UNCHANGED <<server, dialect, kind, state, want, excused>>

Handler ==
  \/ resourceGroupCreate \/ resourceGroupRead \/ resourceGroupDelete
  \/ resourceUserCreate \/ resourceUserRead \/ resourceUserDelete
  \/ resourceGroupMembershipCreate \/ resourceGroupMembershipRead
  \/ resourceGroupMembershipDelete
  \/ resourceObjectAddressesCreate \/ resourceObjectAddressesRead
  \/ resourceObjectAddressesUpdate \/ resourceObjectAddressesDelete
  \/ resourceObjectServicesCreate \/ resourceObjectServicesRead
  \/ resourceObjectServicesUpdate \/ resourceObjectServicesDelete
  \/ dataSourceUpdatableObjectsRead

-----------------------------------------------------------------------------
(* Everybody else                                                          *)

ConsoleAdds ==
  /\ IdsLeft /\ Edit
  /\ \E val \in 1..MaxVal :
       Grows([id |-> NewId, val |-> val, note |-> 1, over |-> FALSE,
              tied |-> FALSE, mine |-> FALSE])
  /\ UNCHANGED <<user, dialect, kind, state, want, op, excused, result>>

ConsoleRemoves ==
  /\ Edit
  /\ \E i \in DOMAIN list :
       IF kind \in Users
       THEN list' = [list EXCEPT ![i].over = TRUE] /\ UNCHANGED walk
       ELSE Shrinks(i)
  /\ UNCHANGED <<user, dialect, kind, state, want, op, excused, result>>

(* Another value, another rule that names it, another member.              *)
ConsoleEdits ==
  /\ Edit
  /\ \E i \in DOMAIN list :
       \/ /\ kind \in Objects \cup {"group"}
          /\ \E val \in 1..MaxVal \ {list[i].val} :
               list' = [list EXCEPT ![i].val = val]
       \/ /\ kind \in Objects
          /\ list' = [list EXCEPT ![i].tied = ~@]
       \/ /\ kind = "group_membership" /\ user
          /\ list' = [list EXCEPT ![i].tied = ~@, ![i].mine = FALSE]
  /\ UNCHANGED <<user, dialect, walk, kind, state, want, op, excused, result>>

(* The user of a membership is deleted.                                    *)
ConsoleRemovesUser ==
  /\ kind = "group_membership" /\ user
  /\ Edit
  /\ user' = FALSE
  /\ list' = [i \in DOMAIN list |->
                [list[i] EXCEPT !.tied = FALSE, !.mine = FALSE]]
  /\ UNCHANGED <<dialect, walk, kind, state, want, op, excused, result>>

Console == ConsoleAdds \/ ConsoleRemoves \/ ConsoleEdits \/ ConsoleRemovesUser

(* Nothing to do: an operator may leave the address alone.                 *)
Rest == op = Idle /\ UNCHANGED vars

Next ==
  \/ Apply \/ ApplyStale \/ EditConfig \/ Import \/ Crash \/ Rest
  \/ DataSourceStarts \/ Handler \/ Console

Spec == Init /\ [][Next]_vars

(* Every call returns, and an operator who has something to apply keeps    *)
(* applying it.                                                            *)
Fairness == WF_vars(Handler) /\ SF_vars(Apply)

FairSpec == Spec /\ Fairness

-----------------------------------------------------------------------------
(* An object leaves the state only once it is gone, its user terminated or *)
(* its pairing removed: never because a call failed or was refused, nor    *)
(* because it is on another page.  A page without a body, and a list that  *)
(* has become shorter during the walk, are the exceptions.                 *)
ForgetsOnlyTheGone ==
  [][state.id # NoId /\ state'.id = NoId
     => \/ (\A o \in On(list', state.id) : ~Live(o))
        \/ walk.moved = "shrunk"
        \/ NullBody]_vars

(* Every object the provider has created is in the record, or the operator *)
(* was told, or a walk could not see it.  Where one answer has the whole   *)
(* list, no walk is an excuse.                                             *)
NoSilentOrphan == op = Idle => Ours(list) \subseteq {state.id} \cup excused

(* The attributes of a user that an import does not know, and that no      *)
(* suppression keeps from forcing a replacement.                           *)
UnknownExtras(s) == kind = "user_extras" /\ s.note = 0

(* A refresh plans to replace an object only if the object on the server   *)
(* is not the configured one: an import, which cannot know what no read    *)
(* tells, does not make the next apply delete what it imported.  That is   *)
(* so where the code suppresses the difference: the exception is an        *)
(* imported user whose configuration sets email_verified, access groups or *)
(* a profile, who is deleted and invited again whatever the server has.    *)
ReplacesOnlyWhatDiffers ==
  [][op.kind = "plan" /\ op'.kind = "replace"
     => \/ state.tainted
        \/ UnknownExtras(state) /\ want.note # LeftOut
        \/ \E o \in On(list, state.id) :
             Val(o) # want.val \/ (kind \in WriteOnly /\ o.note # want.note)]_vars

(* Applying cannot help: the object to delete is named by a firewall rule, *)
(* the group or the user of a membership is missing, the address of a user *)
(* has another account.                                                    *)
Blocked ==
  \/ kind \in Objects /\ \E o \in On(list, state.id) : o.tied
  \/ kind = "group_membership" /\ (~user \/ On(list, want.val) = {})
  \/ /\ kind \in Users
     /\ \E o \in ToSet(list) : o.val = want.val /\ o.id # state.id

InStep ==
  IF want.val = 0 THEN state.id = NoId
  ELSE /\ state.id # NoId /\ ~state.tainted /\ state.val = want.val
       /\ \E o \in On(list, state.id) : Live(o) /\ Val(o) = want.val

(* Whatever failed or was deleted by others before, applying the same      *)
(* configuration again eventually makes the record and the object it.      *)
ApplyConverges ==
  kind # "updatable_objects" => <>[](InStep \/ Blocked)

(* A result the data source does not warn of is the whole catalogue, each  *)
(* object once, whatever the server makes of page and limit: unless the    *)
(* catalogue changed during the read, or the server reports no total and   *)
(* serves shorter pages than it was asked for.                             *)
WholeOrWarned ==
  [][op.pc = "catalogue" /\ op' = Idle /\ result' # result /\ ~result'.warned
     => \/ ToSet(result'.rows) = ToSet(list) /\ Len(result'.rows) = Len(list)
        \/ walk.moved # "no"
        \/ /\ ~dialect.totalPage /\ ~dialect.itemsTotal
           /\ dialect.size < PageSize]_vars
=============================================================================
