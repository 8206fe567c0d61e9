------------------------------ MODULE UserDesk ------------------------------
(***************************************************************************)
(* The table in which an admin changes roles (admin/users/page.tsx) beside *)
(* the page on which a user edits the own profile                          *)
(* (profile/[username]/edit/page.tsx).  The two meet in the users' rows:   *)
(* the API server handles a change of a role, of a profile or of an avatar *)
(* by reading the row and writing all of it back.                          *)
(***************************************************************************)
EXTENDS ApiClient

CONSTANTS Users,        \* the users
          Owner,        \* the one who edits the profile
          MaxChanges    \* bound on the clicks on the two pages

ASSUME UserDeskAssumption == Owner \in Users /\ MaxChanges \in Nat

Roles == {"user", "manager", "admin"}
Bios  == {"blank", "old", "new"}

VARIABLES users,      \* the server: a row for each user
          table,      \* `data`, the roles the table shows; "none" before the load
          failed,     \* the error that replaces the table
          updating,   \* the user whose select is disabled
          editor,     \* the profile page: form, loading, saving, uploading, open
          changes,    \* clicks so far (bound)
          crossed,    \* history: users of whom two role changes were on their way at once
          undone      \* history: users whose role a write of the profile has put back

nobody == "nobody"
deskPage == <<users, table, failed, updating, editor, changes, crossed, undone>>
deskVars == <<deskPage, net>>

\* The states of useState when the profile page is mounted.
Mounted == [form |-> "blank", loading |-> TRUE, saving |-> FALSE, uploading |-> FALSE, open |-> TRUE]

DeskInit == /\ users = [u \in Users |-> [role |-> "user", bio |-> "old"]]
            /\ table = [u \in Users |-> "none"] /\ failed = FALSE /\ updating = nobody
            /\ editor = Mounted /\ changes = 0 /\ crossed = {} /\ undone = {}

\* The effects that run when the two pages are mounted.
DeskMounted == <<Request("users", nobody), Request("profile", Owner)>>

Change(r) == changes < MaxChanges /\ changes' = changes + 1 /\ Send(r)

-----------------------------------------------------------------------------
(* admin/users/page.tsx *)

UsersLoaded(i) == /\ net[i].op = "users" /\ ~Waiting(i)
                  /\ table' = IF Handled(i) THEN Data(i) ELSE table
                  /\ failed' = (failed \/ Failed(i))
                  /\ ReturnLoad(i, <<>>)
                  /\ UNCHANGED <<users, updating, editor, changes, crossed, undone>>

RoleRequests(u) == {i \in InFlight({"role"}) : net[i].arg.user = u}

\* One select is disabled, that of the last user changed; it shows the old role.
ChangeRole(u, role) ==
    /\ table[u] # "none" /\ ~failed /\ updating # u /\ role # table[u]
    /\ Change(Request("role", [user |-> u, role |-> role]))
    /\ updating' = u
    /\ crossed' = IF RoleRequests(u) = {} THEN crossed \ {u} ELSE crossed \cup {u}
    /\ UNCHANGED <<users, table, failed, editor, undone>>

\* Mutant: a change that fails is not shown.
RoleFailureIgnored(i) == /\ net[i].op = "role" /\ (Handled(i) \/ Failed(i))
                         /\ table' = IF Handled(i) THEN [table EXCEPT ![net[i].arg.user] = Data(i).role]
                                                   ELSE table
                         /\ updating' = nobody
                         /\ Return(i, <<>>)
                         /\ UNCHANGED <<users, failed, editor, changes, crossed, undone>>

\* The select of whoever was changed last is enabled.
RoleAnswered(i) == /\ net[i].op = "role" /\ (Handled(i) \/ Failed(i))
                   /\ table' = IF Handled(i) THEN [table EXCEPT ![net[i].arg.user] = Data(i).role]
                                             ELSE table
                   /\ failed' = (failed \/ Failed(i))
                   /\ updating' = nobody
                   /\ Return(i, <<>>)
                   /\ UNCHANGED <<users, editor, changes, crossed, undone>>

-----------------------------------------------------------------------------
(* profile/[username]/edit/page.tsx *)

\* A load that fails leaves the form blank, and shows it.
ProfileLoaded(i) == /\ net[i].op = "profile" /\ ~Waiting(i)
                    /\ editor' = [editor EXCEPT !.loading = FALSE,
                                                !.form = IF Handled(i) THEN Data(i) ELSE @]
                    /\ ReturnLoad(i, <<>>)
                    /\ UNCHANGED <<users, table, failed, updating, changes, crossed, undone>>

Editable == editor.open /\ ~editor.loading

\* Requests of a form that is no longer mounted: the server acts on those that
\* change something, the new form is not told.
Unmounted(n) == LET kept == Without(n, "profile")
                IN [i \in DOMAIN kept |-> IF kept[i].op \in {"save profile", "avatar"}
                                         THEN [kept[i] EXCEPT !.arg.mine = FALSE]
                                         ELSE kept[i]]

TypeBio == /\ Editable /\ editor.form # "new"
           /\ editor' = [editor EXCEPT !.form = "new"]
           /\ UNCHANGED <<users, table, failed, updating, changes, crossed, undone, net>>

SaveProfile == /\ Editable /\ ~editor.saving
               /\ Change(Request("save profile",
                                  [user |-> Owner, mine |-> TRUE, bio |-> editor.form]))
               /\ editor' = [editor EXCEPT !.saving = TRUE]
               /\ UNCHANGED <<users, table, failed, updating, crossed, undone>>

ChooseAvatar == /\ Editable /\ ~editor.uploading
                /\ Change(Request("avatar", [user |-> Owner, mine |-> TRUE]))
                /\ editor' = [editor EXCEPT !.uploading = TRUE]
                /\ UNCHANGED <<users, table, failed, updating, crossed, undone>>

Closed == [Mounted EXCEPT !.open = FALSE]

\* Success moves to the profile, from wherever the user is by now.
ProfileSaved(i) == /\ net[i].op = "save profile" /\ (Handled(i) \/ Failed(i))
                   /\ IF Handled(i)
                      THEN editor' = Closed /\ net' = Unmounted(RemoveAt(net, i))
                      ELSE /\ editor' = [editor EXCEPT !.saving = @ /\ ~net[i].arg.mine]
                           /\ Return(i, <<>>)
                   /\ UNCHANGED <<users, table, failed, updating, changes, crossed, undone>>

AvatarAnswered(i) == /\ net[i].op = "avatar" /\ (Handled(i) \/ Failed(i))
                     /\ editor' = [editor EXCEPT !.uploading = @ /\ ~net[i].arg.mine]
                     /\ Return(i, <<>>)
                     /\ UNCHANGED <<users, table, failed, updating, changes, crossed, undone>>

LeaveProfile == /\ editor.open
                /\ editor' = Closed /\ net' = Unmounted(net)
                /\ UNCHANGED <<users, table, failed, updating, changes, crossed, undone>>

ReopenProfile == /\ ~editor.open
                 /\ editor' = Mounted
                 /\ Change(Request("profile", Owner))
                 /\ UNCHANGED <<users, table, failed, updating, crossed, undone>>

-----------------------------------------------------------------------------
(* The API server *)

DeskRead(i) == /\ Waiting(i)
               /\ \/ net[i].op = "users"   /\ Answer(i, [u \in Users |-> users[u].role])
                  \/ net[i].op = "profile" /\ Answer(i, users[Owner].bio)
               /\ UNCHANGED deskPage

ReadRow(i) == /\ net[i].op \in {"role", "save profile", "avatar"} /\ Waiting(i)
              /\ Read(i, users[net[i].arg.user])
              /\ UNCHANGED deskPage

\* The row as it was read, with the field that was asked for.
Changed(r, row) == CASE r.op = "role"         -> [row EXCEPT !.role = r.arg.role]
                [] r.op = "save profile" -> [row EXCEPT !.bio = r.arg.bio]
                [] r.op = "avatar"       -> row

WriteRow(i) ==
    LET u == net[i].arg.user IN
    /\ Midway(i)
    /\ users' = [users EXCEPT ![u] = Changed(net[i], Data(i))]
    /\ undone' = IF net[i].op = "role" THEN undone \ {u}
                 ELSE IF Data(i).role # users[u].role THEN undone \cup {u} ELSE undone
    /\ Answer(i, users'[u]) \/ Fail(i)
    /\ UNCHANGED <<table, failed, updating, editor, changes, crossed>>

DeskFails(i) == (Waiting(i) \/ Midway(i)) /\ Fail(i) /\ UNCHANGED deskPage

-----------------------------------------------------------------------------
DeskNext == \/ TypeBio \/ SaveProfile \/ ChooseAvatar \/ LeaveProfile \/ ReopenProfile
            \/ \E u \in Users, role \in Roles : ChangeRole(u, role)
            \/ \E i \in DOMAIN net :
                  \/ UsersLoaded(i) \/ RoleAnswered(i) \/ ProfileLoaded(i) \/ ProfileSaved(i)
                  \/ AvatarAnswered(i) \/ DeskRead(i) \/ ReadRow(i) \/ WriteRow(i) \/ DeskFails(i)

-----------------------------------------------------------------------------
DeskTypeOK == /\ users \in [Users -> [role : Roles, bio : Bios]]
              /\ table \in [Users -> Roles \cup {"none"}]
              /\ failed \in BOOLEAN /\ updating \in Users \cup {nobody}
              /\ editor \in [form : Bios, loading : BOOLEAN, saving : BOOLEAN,
                             uploading : BOOLEAN, open : BOOLEAN]
              /\ changes \in 0..MaxChanges
              /\ crossed \subseteq Users /\ undone \subseteq Users

\* A table of roles that is shown is true of every user whose role is not being
\* changed, though answers are lost and come in any order.  Two things can make
\* it lie: two changes of one user on their way at once (the select of the first
\* is enabled by a change of another user), and a profile or an avatar written
\* over a role that was changed after the row was read.
RoleTableIsTrue ==
    \A u \in Users :
        (table[u] # "none" /\ ~failed /\ RoleRequests(u) = {} /\ u \notin crossed \cup undone)
        => table[u] = users[u].role
=============================================================================
