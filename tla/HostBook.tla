------------------------------ MODULE HostBook ------------------------------
(***************************************************************************)
(* The hosts of one vault and what goes with them: stored passwords, jump  *)
(* references, groups, and the bindings that pin a member's identity to    *)
(* where a personal host points.  ffi/src/host_save.rs checks and writes a *)
(* host, ffi/src/lib.rs keeps the bindings and resolves a login, and       *)
(* cli/src/host_edit.rs is the command line's editor.                      *)
(*                                                                         *)
(* Save, binding and group calls of one process hold the state lock; the   *)
(* commands of another process on the same store only meet its             *)
(* transactions.  A form, a dialog or a command reads the host first and   *)
(* saves later.  A host's uid is its id here: an id that was deleted is    *)
(* not minted again.                                                       *)
(***************************************************************************)
EXTENDS Naturals, Sequences, FiniteSets

CONSTANTS
  Hosts,       \* ids of hosts, saved or to be saved
  First,       \* the hosts saved at the start, as a function id -> record
  Addrs,       \* where a host points: address, port, username template and proxy
  Secrets,     \* password items of the vault, stored or to be minted
  InIdentity,  \* the secrets an identity of the vault logs in with
  Groups,      \* groups of the vault
  Holders,     \* the member's vaults with an identity each, in the order of list_vaults
  Procs,       \* who edits: forms of the app, commands
  Edits,       \* what is changed: "label", "addr", "auth", "hop", "item", "newpw", "group", "link", "move"
  Uses,        \* other calls: "new" (hosts), "delete", "import", "dialog", "unbind", "groups", "share", "connect"
  Apart,       \* do the editors run in processes of their own: BOOLEAN
  PutFails,    \* may a write fail after the host is stored: subset of BOOLEAN
  None,
  MaxSaves,    \* bound: saves, deletions, imports and dialogs
  MaxPulls     \* bound: changes of a team member that are pulled

\* What every instance of this module satisfies.
HostBookAssumption ==
  /\ DOMAIN First \subseteq Hosts /\ Apart \in BOOLEAN /\ PutFails \subseteq BOOLEAN
  /\ MaxSaves \in Nat /\ MaxPulls \in Nat

VARIABLES
  host,      \* id -> what is saved of it
  secret,    \* password item -> its value, 0 for none
  group,     \* group -> the members it lists
  bind,      \* the bindings: [in: holder, uid: host, pin: destination]
  private,   \* the holders only this member reads
  proc,      \* editor -> the form, dialog, command or connect under way
  typed,     \* passwords typed so far
  saves, pulls,
  approved,  \* history: <<host, destination>> the member typed, linked or confirmed
  under,     \* history: hosts saved from a form they had changed under
  cut,       \* history: hosts a deletion or a team member's change took a hop from
  said,      \* history: hosts whose last save said an identity is linked, unchanged since
  logins,    \* history: <<host, destination>> a binding was matched for
  twice      \* history: hosts a group command said are in two groups

vars == <<host, secret, group, bind, private, proc, typed, saves, pulls, approved, under, cut, said, logins, twice>>

HolderSet == {Holders[i] : i \in 1 .. Len(Holders)}
Logins == {"key", "password", "ask", "personal"}
Gone == [live |-> FALSE, addr |-> None, auth |-> "ask", pw |-> None, proxyPw |-> None, hop |-> None]
Idle == [pc |-> "idle", h |-> None, seen |-> Gone, edit |-> [what |-> "label", to |-> None],
         want |-> Gone, own |-> None, link |-> None, pin |-> None, before |-> None, move |-> FALSE,
         all |-> <<>>]

Live == {h \in Hosts : host[h].live}

----------------------------------------------------------------------------
\* What a host is, and how it is resolved.

can_be_a_hop(auth) == auth \in {"key", "password"}

\* personal_destination: the address and the way; a saved bastion is named, not spelled out.
personal_destination(r) == <<r.addr, r.hop>>

BindingsOf(v, h) == {b \in bind : b.in = v /\ b.uid = h}
binding_in(v, h) == IF BindingsOf(v, h) = {} THEN None ELSE (CHOOSE b \in BindingsOf(v, h) : TRUE).pin

\* binding_vault_in: the first vault in the list that has one.
binding_vault_in(h, private_only) ==
  LET has == {i \in 1 .. Len(Holders) :
                /\ binding_in(Holders[i], h) # None
                /\ private_only => Holders[i] \in private}
  IN  IF has = {} THEN None ELSE Holders[CHOOSE i \in has : \A j \in has : i <= j]

\* resolve_binding, with the vault the connect finds.
Matched(h) ==
  LET v == binding_vault_in(h, FALSE)
  IN  v # None /\ binding_in(v, h) = personal_destination(host[h])

\* put_binding: one item for a host in a vault.
put_binding(v, h, pin) == (bind \ BindingsOf(v, h)) \cup {[in |-> v, uid |-> h, pin |-> pin]}

Init ==
  /\ host = [h \in Hosts |-> IF h \in DOMAIN First THEN First[h] ELSE Gone]
  /\ secret = [s \in Secrets |-> IF s \in InIdentity \/ \E h \in DOMAIN First : s \in {First[h].pw, First[h].proxyPw}
                                THEN 1 ELSE 0]
  /\ group = [g \in Groups |-> {}] /\ bind = {} /\ private = HolderSet
  /\ proc = [p \in Procs |-> Idle] /\ typed = 1 /\ saves = 0 /\ pulls = 0
  /\ approved = {} /\ under = {} /\ cut = {} /\ said = {} /\ logins = {} /\ twice = {}

----------------------------------------------------------------------------
\* Saving a host: host_save.rs.

\* With one process the state lock keeps every other call out of a save.
Free(p) == Apart \/ \A q \in Procs \ {p} : proc[q].pc \notin {"write", "pin"}

\* usage_in: what else logs in with a secret.  The host itself counts for its proxy only.
usage_in(s, h) ==
  \/ s \in InIdentity
  \/ \E o \in Live : host[o].proxyPw = s \/ (o # h /\ host[o].pw = s)

\* own_password_item: the secret a typed password is a new version of, if any.
own_password_item(h) ==
  IF host[h].live /\ host[h].auth = "password" /\ secret[host[h].pw] # 0 /\ ~usage_in(host[h].pw, h)
    THEN host[h].pw ELSE None

\* What a command or a form changes of a host: the login, the way, the rest.
apply_login(s, e) ==
  CASE e.what = "auth" -> [s EXCEPT !.auth = e.to, !.pw = None]
    [] e.what = "item" -> [s EXCEPT !.auth = "password", !.pw = e.to]
    [] e.what = "newpw" -> [s EXCEPT !.auth = "password"]
    [] e.what = "link" -> [s EXCEPT !.auth = "personal", !.pw = None]
    [] OTHER -> s

apply_route(s, e) == IF e.what = "hop" THEN [s EXCEPT !.hop = e.to] ELSE s

apply_rest(s, e) == IF e.what = "addr" THEN [s EXCEPT !.addr = e.to] ELSE s

Wanted(p) == LET e == proc[p].edit IN apply_rest(apply_route(apply_login(proc[p].seen, e), e), e)

\* check_hops.
check_hops(p, w) ==
  w.hop # None => w.hop \in Live /\ w.hop # proc[p].h /\ can_be_a_hop(host[w.hop].auth)

\* A host others jump through keeps a login a hop can use.
DependentsOk(p, w) ==
  host[proc[p].h].live /\ ~can_be_a_hop(w.auth)
    => \A o \in Live \ {proc[p].h} : host[o].hop # proc[p].h

\* link_to_pin: the identity given, else the one linked from a private vault.
link_to_pin(p, w) ==
  IF proc[p].edit.what = "link" THEN proc[p].edit.to
  ELSE IF w.auth = "personal" /\ host[proc[p].h].live THEN binding_vault_in(proc[p].h, TRUE)
  ELSE None

\* The host is shown in a form, or loaded by a command.
OpenForm(p, h) ==
  /\ proc[p].pc = "idle" /\ Free(p) /\ saves < MaxSaves
  /\ h \in Live \/ "new" \in Uses
  /\ proc' = [proc EXCEPT ![p] = [Idle EXCEPT !.pc = "form", !.h = h,
                 !.seen = IF h \in Live THEN host[h]
                          ELSE [Gone EXCEPT !.live = TRUE, !.auth = "key", !.addr = CHOOSE a \in Addrs : TRUE]]]
  /\ UNCHANGED <<host, secret, group, bind, private, typed, saves, pulls, approved, under, cut, said, logins, twice>>

\* The member changes one thing and saves.  A typed destination is the member's word.
Submit(p, e) ==
  /\ proc[p].pc = "form" /\ e.what \in Edits /\ saves < MaxSaves
  /\ saves' = saves + 1
  /\ proc' = [proc EXCEPT ![p].pc = IF e.what = "move" THEN "confirm" ELSE "check", ![p].edit = e]
  /\ approved' = IF e.what \in {"addr", "hop", "link"}
                   THEN approved \cup
                          {<<proc[p].h, personal_destination(apply_rest(apply_route(proc[p].seen, e), e))>>}
                   ELSE approved
  /\ UNCHANGED <<host, secret, group, bind, private, typed, pulls, under, cut, said, logins, twice>>

\* pin_move_confirmed: asked only when a pin of any vault differs from the form's destination.
ConfirmMove(p) ==
  LET now == personal_destination(proc[p].seen)
      v == binding_vault_in(proc[p].h, FALSE)
  IN  /\ proc[p].pc = "confirm"
      /\ IF proc[p].seen.auth # "personal" \/ v = None
           THEN proc' = [proc EXCEPT ![p] = Idle] /\ UNCHANGED approved
           ELSE /\ proc' = [proc EXCEPT ![p].pc = "check", ![p].move = binding_in(v, proc[p].h) # now]
                /\ approved' = IF binding_in(v, proc[p].h) # now THEN approved \cup {<<proc[p].h, now>>} ELSE approved
      /\ UNCHANGED <<host, secret, group, bind, private, typed, saves, pulls, under, cut, said, logins, twice>>

\* save_locked up to the transaction: the rules, and what the write needs.
Check(p) ==
  LET w == Wanted(p)
      v == link_to_pin(p, w)
      h == proc[p].h
  IN  /\ proc[p].pc = "check" /\ Free(p)
      /\ IF /\ check_hops(p, w) /\ DependentsOk(p, w)
            /\ proc[p].edit.what = "newpw" => w.auth = "password"
           THEN proc' = [proc EXCEPT ![p].pc = "write", ![p].want = w,
                   ![p].own = IF proc[p].edit.what = "newpw" THEN own_password_item(h) ELSE None,
                   ![p].link = v,
                   ![p].pin = IF v = None \/ ~host[h].live THEN None ELSE binding_in(v, h),
                   ![p].before = IF host[h].live THEN personal_destination(host[h]) ELSE None]
           ELSE proc' = [proc EXCEPT ![p] = Idle]
      /\ UNCHANGED <<host, secret, group, bind, private, typed, saves, pulls, approved, under, cut, said, logins, twice>>

\* place_in_group: into one group, out of every other.
place_in_group(h, e) ==
  IF e.what # "group" THEN group
  ELSE [g \in Groups |-> IF g = e.to THEN group[g] \cup {h} ELSE group[g] \ {h}]

\* The transaction: the password, the host and its groups.
WriteHost(p) ==
  LET h == proc[p].h
      e == proc[p].edit
      fresh == {s \in Secrets : secret[s] = 0}
      item == IF proc[p].own # None THEN proc[p].own ELSE CHOOSE s \in fresh : TRUE
      pw == e.what = "newpw"
      new == [proc[p].want EXCEPT !.live = TRUE, !.pw = IF pw THEN item ELSE @]
  IN  /\ proc[p].pc = "write"
      /\ pw => (proc[p].own # None \/ fresh # {})
      /\ host' = [host EXCEPT ![h] = new]
      /\ secret' = IF pw THEN [secret EXCEPT ![item] = typed + 1] ELSE secret
      /\ typed' = IF pw THEN typed + 1 ELSE typed
      /\ group' = place_in_group(h, e)
      /\ under' = IF host[h] # proc[p].seen /\ host[h].live THEN under \cup {h} ELSE under
      /\ cut' = cut \ {h}
      /\ said' = said \ {h}
      /\ proc' = [proc EXCEPT ![p] = IF proc[p].link = None THEN Idle ELSE [@ EXCEPT !.pc = "pin"]]
      /\ UNCHANGED <<bind, private, saves, pulls, approved, logins, twice>>

\* A mutant: the pin follows every save.
MutKept(p) == None

\* A pin that no longer named where the host pointed stays, unless the move was confirmed.
Kept(p) ==
  IF proc[p].pin # None /\ ~proc[p].move /\ proc[p].before # None /\ proc[p].before # proc[p].pin
    THEN proc[p].pin ELSE None

\* A mutant: a kept pin counts as linked.
StillPinned(p) == Kept(p) # None /\ Kept(p) # personal_destination(proc[p].want)

\* pin_identity: in another vault, after the transaction.
PinIdentity(p, fails) ==
  LET h == proc[p].h
      new == IF Kept(p) # None THEN Kept(p) ELSE personal_destination(proc[p].want)
      unchanged == proc[p].pin = new
  IN  /\ proc[p].pc = "pin"
      /\ fails => ~unchanged
      /\ bind' = IF unchanged \/ fails THEN bind ELSE put_binding(proc[p].link, h, new)
      /\ said' = IF ~fails /\ ~StillPinned(p) THEN said \cup {h} ELSE said
      /\ proc' = [proc EXCEPT ![p] = Idle]
      /\ UNCHANGED <<host, secret, group, private, typed, saves, pulls, approved, under, cut, logins, twice>>

----------------------------------------------------------------------------
\* The other calls on hosts, bindings and groups.

\* delete_connection asks nothing of the hosts that jump through it.
delete_connection(p, h) ==
  /\ "delete" \in Uses /\ proc[p].pc = "idle" /\ Free(p) /\ h \in Live /\ saves < MaxSaves
  /\ saves' = saves + 1
  /\ host' = [host EXCEPT ![h] = Gone]
  /\ cut' = cut \cup {o \in Live : host[o].hop = h}
  /\ said' = said \ {h}
  /\ UNCHANGED <<secret, group, bind, private, proc, typed, pulls, approved, under, logins, twice>>

\* import_parsed_ssh_config, one alias, in one transaction: the login is asked for after it.
Import(p, h, a) ==
  /\ "import" \in Uses /\ proc[p].pc = "idle" /\ Free(p) /\ saves < MaxSaves
  /\ \A o \in Live \ {h} : host[o].hop # h
  /\ h \in Live \/ (host[h] = Gone /\ \A b \in bind : b.uid # h)
  /\ saves' = saves + 1
  /\ host' = [host EXCEPT ![h] = [Gone EXCEPT !.live = TRUE, !.addr = a]]
  /\ cut' = cut \ {h} /\ said' = said \ {h}
  /\ UNCHANGED <<secret, group, bind, private, proc, typed, pulls, approved, under, logins, twice>>

\* The app's dialog: the host and its binding are read when it opens.
OpenDialog(p, h) ==
  /\ "dialog" \in Uses /\ proc[p].pc = "idle" /\ Free(p) /\ h \in Live /\ host[h].auth = "personal"
  /\ private # {} /\ saves < MaxSaves
  /\ LET v == binding_vault_in(h, TRUE)
         to == IF v # None THEN v ELSE CHOOSE x \in private : TRUE
     IN  proc' = [proc EXCEPT ![p] = [Idle EXCEPT !.pc = "dialog", !.h = h, !.seen = host[h],
                                                  !.link = to, !.pin = binding_in(to, h)]]
  /\ UNCHANGED <<host, secret, group, bind, private, typed, saves, pulls, approved, under, cut, said, logins, twice>>

\* set_binding: a pin that came or changed since the dialog read none is not overwritten.
BindFromDialog(p) ==
  LET now == personal_destination(proc[p].seen)
      has == binding_in(proc[p].link, proc[p].h)
  IN  /\ proc[p].pc = "dialog" /\ Free(p) /\ saves < MaxSaves
      /\ saves' = saves + 1
      /\ approved' = approved \cup {<<proc[p].h, now>>}
      /\ bind' = IF proc[p].pin = None /\ has \notin {None, now} THEN bind
                 ELSE put_binding(proc[p].link, proc[p].h, now)
      /\ said' = said \ {proc[p].h}
      /\ proc' = [proc EXCEPT ![p] = Idle]
      /\ UNCHANGED <<host, secret, group, private, typed, pulls, under, cut, logins, twice>>

delete_binding(p, v, h) ==
  /\ "unbind" \in Uses /\ proc[p].pc = "idle" /\ Free(p) /\ binding_in(v, h) # None /\ saves < MaxSaves
  /\ saves' = saves + 1
  /\ bind' = bind \ BindingsOf(v, h)
  /\ said' = said \ {h}
  /\ UNCHANGED <<host, secret, group, private, proc, typed, pulls, approved, under, cut, logins, twice>>

\* edit_group reads every group ...
LoadGroups(p, h, g) ==
  /\ "groups" \in Uses /\ proc[p].pc = "idle" /\ Free(p) /\ h \in Live /\ saves < MaxSaves
  /\ saves' = saves + 1
  /\ proc' = [proc EXCEPT ![p] = [Idle EXCEPT !.pc = "group", !.h = h, !.link = g, !.all = group]]
  /\ UNCHANGED <<host, secret, group, bind, private, typed, pulls, approved, under, cut, said, logins, twice>>

\* ... saves the one it changes ...
SaveGroup(p) ==
  /\ proc[p].pc = "group" /\ Free(p)
  /\ group' = [group EXCEPT ![proc[p].link] = proc[p].all[proc[p].link] \cup {proc[p].h}]
  /\ proc' = [proc EXCEPT ![p].pc = "others"]
  /\ UNCHANGED <<host, secret, bind, private, typed, saves, pulls, approved, under, cut, said, logins, twice>>

ListedElsewhere(p) == {g \in Groups \ {proc[p].link} : proc[p].h \in proc[p].all[g]}

\* ... and the ones that list its hosts, as it read them; a failure is said.
SaveOthers(p, fails) ==
  LET rest == ListedElsewhere(p)
  IN  /\ proc[p].pc = "others" /\ Free(p)
      /\ fails => rest # {}
      /\ group' = IF fails THEN group
                  ELSE [g \in Groups |-> IF g \in rest THEN proc[p].all[g] \ {proc[p].h} ELSE group[g]]
      /\ twice' = IF fails THEN twice \cup {proc[p].h} ELSE twice
      /\ proc' = [proc EXCEPT ![p] = Idle]
      /\ UNCHANGED <<host, secret, bind, private, typed, saves, pulls, approved, under, cut, said, logins>>

\* A second member joins a vault of the member.
ShareHolder(v) ==
  /\ "share" \in Uses /\ v \in private
  /\ private' = private \ {v}
  /\ UNCHANGED <<host, secret, group, bind, proc, typed, saves, pulls, approved, under, cut, said, logins, twice>>

\* A team member's version of a host is pulled.
Pulled(h, r) ==
  /\ pulls < MaxPulls /\ h \in Live /\ r # host[h]
  /\ Apart \/ \A p \in Procs : proc[p].pc \notin {"write", "pin"}
  /\ pulls' = pulls + 1
  /\ host' = [host EXCEPT ![h] = r]
  /\ cut' = (cut \cup {o \in Live : host[o].hop = h /\ ~can_be_a_hop(r.auth)})
              \cup (IF r.hop = None \/ (r.hop \in Live /\ can_be_a_hop(host[r.hop].auth)) THEN {} ELSE {h})
  /\ said' = said \ {h}
  /\ UNCHANGED <<secret, group, bind, private, proc, typed, saves, approved, under, logins, twice>>

----------------------------------------------------------------------------
\* Connecting: resolve_profile and resolve_personal_auth take the lock call by call.

LoadProfile(p, h) ==
  /\ "connect" \in Uses /\ proc[p].pc = "idle" /\ Free(p) /\ h \in Live /\ host[h].auth = "personal"
  /\ proc' = [proc EXCEPT ![p] = [Idle EXCEPT !.pc = "find", !.h = h, !.seen = host[h]]]
  /\ UNCHANGED <<host, secret, group, bind, private, typed, saves, pulls, approved, under, cut, said, logins, twice>>

FindBindingVault(p) ==
  LET v == binding_vault_in(proc[p].h, FALSE)
  IN  /\ proc[p].pc = "find" /\ Free(p)
      /\ proc' = [proc EXCEPT ![p] = IF v = None THEN Idle ELSE [@ EXCEPT !.pc = "get", !.link = v]]
      /\ UNCHANGED <<host, secret, group, bind, private, typed, saves, pulls, approved, under, cut, said, logins, twice>>

\* resolve_binding.
Resolves(p) == binding_in(proc[p].link, proc[p].h) = personal_destination(proc[p].seen)

resolve_personal_auth(p) ==
  /\ proc[p].pc = "get" /\ Free(p)
  /\ logins' = IF Resolves(p) THEN logins \cup {<<proc[p].h, personal_destination(proc[p].seen)>>} ELSE logins
  /\ proc' = [proc EXCEPT ![p] = Idle]
  /\ UNCHANGED <<host, secret, group, bind, private, typed, saves, pulls, approved, under, cut, said, twice>>

----------------------------------------------------------------------------
EditsOf ==
  [what : {"label", "newpw", "move"}, to : {None}]
    \cup [what : {"addr"}, to : Addrs] \cup [what : {"auth"}, to : {"key", "ask", "personal"}]
    \cup [what : {"hop"}, to : Hosts \cup {None}] \cup [what : {"group"}, to : Groups \cup {None}]
    \cup [what : {"link"}, to : HolderSet] \cup [what : {"item"}, to : {s \in Secrets : secret[s] # 0}]

Versions(h) ==
  {[host[h] EXCEPT !.addr = a] : a \in Addrs}
    \cup {[host[h] EXCEPT !.hop = o] : o \in (Hosts \ {h}) \cup {None}}
    \cup (IF "hop" \in Edits THEN {[host[h] EXCEPT !.auth = "personal", !.pw = None]} ELSE {})

Next ==
  \/ \E p \in Procs :
       \/ \E h \in Hosts : OpenForm(p, h) \/ delete_connection(p, h) \/ OpenDialog(p, h) \/ LoadProfile(p, h)
       \/ \E h \in Hosts, a \in Addrs : Import(p, h, a)
       \/ \E e \in EditsOf : Submit(p, e)
       \/ \E v \in HolderSet, h \in Hosts : delete_binding(p, v, h)
       \/ \E h \in Hosts, g \in Groups : LoadGroups(p, h, g)
       \/ ConfirmMove(p) \/ Check(p) \/ WriteHost(p) \/ BindFromDialog(p) \/ SaveGroup(p)
       \/ FindBindingVault(p) \/ resolve_personal_auth(p)
       \/ \E f \in PutFails : PinIdentity(p, f) \/ SaveOthers(p, f)
  \/ \E h \in Hosts : \E r \in Versions(h) : Pulled(h, r)
  \/ \E v \in HolderSet : ShareHolder(v)

Spec == Init /\ [][Next]_vars

----------------------------------------------------------------------------
TypeOK ==
  /\ \A h \in Hosts :
       /\ host[h].live \in BOOLEAN /\ host[h].auth \in Logins /\ host[h].hop \in Hosts \cup {None}
       /\ host[h].live => host[h].addr \in Addrs
  /\ \A b \in bind : b.in \in HolderSet /\ b.uid \in Hosts
  /\ \A b, c \in bind : b.in = c.in /\ b.uid = c.uid => b = c
  /\ private \subseteq HolderSet /\ saves \in 0 .. MaxSaves /\ pulls \in 0 .. MaxPulls

\* An identity is used only where the member typed, linked or confirmed that the host points,
\* however the changes of team members come in between (pin_identity keeps a pin that was left
\* behind).  Saves from a form the host had changed under are the exception.
LoginsApproved == \A l \in logins : l \in approved \/ l[1] \in under

\* A save that says an identity is linked to the host means that a connect matches it.
LinkedMeansReady == \A h \in said : h \in Live => Matched(h)

\* What a host or an identity logs in with.
PasswordOf(h) == IF host[h].auth = "password" THEN secret[host[h].pw] ELSE 0
ProxyPasswordOf(h) == IF host[h].proxyPw = None THEN 0 ELSE secret[host[h].proxyPw]

\* What PasswordsApart says of one step.
PasswordsApartStep ==
  \A p \in Procs : WriteHost(p) =>
    /\ \A h \in Live \ {proc[p].h} : PasswordOf(h)' = PasswordOf(h)
    /\ \A h \in Live : ProxyPasswordOf(h) # 0 /\ host'[h].proxyPw = host[h].proxyPw
         => ProxyPasswordOf(h)' = ProxyPasswordOf(h)
    /\ \A s \in InIdentity : secret[s]' = secret[s]

\* A password typed for one host changes nothing another host, a proxy or an identity logs
\* in with (own_password_item).
PasswordsApart == [][PasswordsApartStep]_vars

\* A jump reference names another saved host that logs in with something a hop can use, unless
\* a deletion or a team member's change took it away (check_hops and the dependents).
HopsUsable ==
  \A h \in Live \ cut :
    host[h].hop # None => host[h].hop \in Live \ {h} /\ can_be_a_hop(host[host[h].hop].auth)

\* A host is in one group at most when no group command is under way, unless one said otherwise.
OneGroup ==
  (\A p \in Procs : proc[p].pc # "others") =>
    \A h \in Live \ twice : Cardinality({g \in Groups : h \in group[g]}) <= 1
=============================================================================
