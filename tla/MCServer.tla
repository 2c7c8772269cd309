------------------------------ MODULE MCServer ------------------------------
(***************************************************************************)
(* ServerSync for TLC: an owner a, a member b who pulls, items i and j.     *)
(* A behaviour plays one scene: what the clients send, whether b pulls, and *)
(* how far the clock and the operator go.                                   *)
(***************************************************************************)
EXTENDS ServerSync, TLC

CONSTANTS a, b, i, j, k1, h1, h2

VARIABLE scene

HandlerSymmetry == Permutations(Handler)

NoRoles == [m \in Member |-> "none"]

\* Objects.
Blank(tag, author) ==
  [tag |-> tag, author |-> author, id |-> NoOne, ver |-> 1, epoch |-> 1,
   tomb |-> FALSE, roles |-> NoRoles, notAfter |-> 0]
VaultRec(m, v, tomb)  == [Blank("vault", m) EXCEPT !.ver = v, !.tomb = tomb]
ItemRec(m, x, v, tomb) == [Blank("item", m) EXCEPT !.id = x, !.ver = v, !.tomb = tomb]
AccountRec(m, v)      == [Blank("account", m) EXCEPT !.ver = v]
ManifestRec(m, e, R)  == [Blank("manifest", m) EXCEPT !.epoch = e, !.roles = R]
GrantRec(m, to, e, t) == [Blank("grant", m) EXCEPT !.id = to, !.epoch = e, !.notAfter = t]

OwnerOnly == [NoRoles EXCEPT ![a] = "admin"]
WithB(role) == [OwnerOnly EXCEPT ![b] = role]

\* Requests.
Push(who, key, objs) ==
  [kind |-> "push", who |-> who, key |-> key, objs |-> objs, revoke |-> 0]
Publish(who, objs, revoke) ==
  [kind |-> "publish", who |-> who, key |-> NoKey, objs |-> objs, revoke |-> revoke]

\* Retries of one push, the same key on another body and from another
\* principal, two vault records of one version, a vault claimed by another.
IdemRequests ==
  {Push(a, k1, <<VaultRec(a, 2, FALSE), AccountRec(a, 1)>>),
   Push(a, k1, <<VaultRec(a, 2, TRUE)>>),
   Push(b, k1, <<AccountRec(b, 2)>>)}

\* A log of visible, hidden, compacted and audit rows for b, who owns the vault.
PullRequests ==
  {Push(b, NoKey, <<VaultRec(b, 1, FALSE), ItemRec(b, i, 1, FALSE)>>),
   Push(b, NoKey, <<AccountRec(b, 1), Blank("keyset", b)>>),
   Push(b, NoKey, <<AccountRec(b, 2)>>),
   Push(a, NoKey, <<AccountRec(a, 1), Blank("audit", a)>>)}

\* A vault is shared with b, b is removed by a rotation, a second manifest of
\* epoch 2 and the old grant come late, an item is added meanwhile; the keyset
\* row, visible to everybody, takes b's cursor past rows b cannot see yet.
ShareRequests ==
  {Push(a, NoKey, <<VaultRec(a, 1, FALSE), ItemRec(a, i, 1, FALSE), ItemRec(a, i, 2, FALSE)>>),
   Push(a, NoKey, <<ItemRec(a, j, 1, FALSE), Blank("keyset", a)>>),
   Publish(a, <<ManifestRec(a, 1, WithB("editor")), GrantRec(a, b, 1, 0)>>, 0),
   Publish(a, <<ManifestRec(a, 2, OwnerOnly)>>, 1),
   Push(a, NoKey, <<ManifestRec(a, 2, WithB("viewer")), GrantRec(a, b, 1, 0)>>)}

AllRequests == IdemRequests \cup PullRequests \cup ShareRequests

\* What a scene allows: the requests, how often each is sent, whether b pulls,
\* the clock and the seq-bumps.
Scene == [
  idem  |-> [sends |-> IdemRequests,  times |-> 2, pulls |-> FALSE, now |-> 1, bumps |-> 0],
  pull  |-> [sends |-> PullRequests,  times |-> 1, pulls |-> TRUE,  now |-> 0, bumps |-> 1],
  share |-> [sends |-> ShareRequests, times |-> 1, pulls |-> TRUE,  now |-> 0, bumps |-> 0]]

Within ==
  /\ \A r \in Request : sent[r] <= IF r \in Scene[scene].sends THEN Scene[scene].times ELSE 0
  /\ Scene[scene].pulls \/ rd = [d \in Reader |-> Resting(0, 0)]
  /\ now <= Scene[scene].now /\ bumps <= Scene[scene].bumps

SceneInit == Init /\ scene \in DOMAIN Scene
SceneNext == Next /\ UNCHANGED scene /\ Within'
SceneSpec == SceneInit /\ [][SceneNext]_<<vars, scene>>

\* What the server answers from is what the log says: the policy tables, the
\* manifest of an epoch, the rows it re-emits and the rows of a page.
DerivedFromLog ==
  /\ [](SnapshotLatest /\ ManifestFirstWins /\ ReemitCurrent)
  /\ PageComplete
=============================================================================
