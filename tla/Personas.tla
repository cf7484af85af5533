------------------------------ MODULE Personas ------------------------------
(***************************************************************************)
(* persona/manager.py, persona/repository.py and the routes over them: the *)
(* personas a user made, the user's default, and the chats that resolve    *)
(* which persona answers.  Each database session of a request is a step,   *)
(* or two when a row read in it is written: other requests run at every    *)
(* await in between.                                                       *)
(*                                                                         *)
(* A name is the sequence of a base name and the number of each copy: a    *)
(* copy of "X (Copy 2)" is <<X, 2, 1>>.  What else a persona says is data. *)
(* Nothing sets the persona of a session, so resolve() begins with the     *)
(* user's default.                                                         *)
(***************************************************************************)
EXTENDS Integers, Sequences, FiniteSets

CONSTANTS
  Users,
  Ids,      \* UUIDs the database may give to rows
  Presets,  \* the personas that are no rows, by their names, which are reserved
  Professional,  \* one of Presets
  Names,    \* other base names
  Edits,    \* requests to the REST routes
  Chats,    \* messages whose answer needs a persona
  UserOf,   \* the user of a chat
  Nothing

VARIABLES
  rows,     \* the table personas: id to user and name
  made,     \* the ids given out so far
  default,  \* user_persona_preferences: of each user no row, or one; it may name Nothing
  at,       \* where a request is
  plan,     \* what an edit is about: operation, user, persona, name
  found,    \* what a request read last
  used,     \* the persona that answers a chat
  broken,   \* chats whose session failed
  seen      \* history: default and rows of the user while a chat runs

vars == <<rows, made, default, at, plan, found, used, broken, seen>>

Calls == Edits \cup Chats
Reserved == {<<n>> : n \in Presets}
Default(u) == IF default[u] = {} THEN Nothing ELSE CHOOSE p \in default[u] : TRUE
Exists(p) == p \in Presets \cup DOMAIN rows
Clash(id, u, n) == \E i \in DOMAIN rows \ {id} : rows[i] = [user |-> u, name |-> n]

Init ==
  /\ \E S \in SUBSET Ids : rows \in [S -> [user : Users, name : {<<n>> : n \in Names}]]
  /\ \A i, j \in DOMAIN rows : rows[i] = rows[j] => i = j
  /\ made = DOMAIN rows
  /\ default \in [Users -> {{}} \cup {{p} : p \in DOMAIN rows \cup {Professional, Nothing}}]
  /\ at = [r \in Calls |-> "new"]
  /\ plan = [e \in Edits |-> Nothing]
  /\ found = [r \in Calls |-> Nothing]
  /\ used = [c \in Chats |-> Nothing]
  /\ broken = {}
  /\ seen = [c \in Chats |-> {}]

Go(r, place) == at' = [at EXCEPT ![r] = place]
Find(r, x) == found' = [found EXCEPT ![r] = x]
Mine(r, i) == i \in DOMAIN rows /\ rows[i].user = plan[r].user
Elsewhere == UNCHANGED <<default, plan, used, broken>>
Reading == UNCHANGED <<rows, made>> /\ Elsewhere
Resolving == UNCHANGED <<rows, made, default, plan>>

-----------------------------------------------------------------------------
\* What the routes are asked for.  create() and set_default() need no persona
\* that exists; an update may leave the name out.
Wishes ==
  LET named == {<<n>> : n \in Names \cup Presets}
      Of(ops, personas, names) == [op : ops, user : Users, persona : personas, name : names] IN
  Of({"create"}, {Nothing}, named) \cup Of({"update"}, made \cup Presets, named \cup {Nothing})
    \cup Of({"delete", "clone"}, made \cup Presets, {Nothing})
    \cup Of({"prefer"}, made \cup Presets \cup {Nothing}, {Nothing})

Begin(e, wish) ==
  /\ at[e] = "new"
  /\ plan' = [plan EXCEPT ![e] = wish]
  /\ Go(e, CASE wish.op = "create" -> IF wish.name \in Reserved THEN "refused" ELSE "inserting"
             [] wish.op = "prefer" -> "choosing"
             [] OTHER -> "looking")
  /\ UNCHANGED <<rows, made, default, found, used, broken>>

\* get_persona() of update, delete and clone; a preset can only be cloned.
Look(e) ==
  LET it == plan[e].persona IN
  /\ at[e] = "looking"
  /\ Find(e, IF it \in DOMAIN rows THEN rows[it].name ELSE <<it>>)
  /\ Go(e, IF ~Exists(it) \/ (it \in Presets /\ plan[e].op # "clone") THEN "refused"
           ELSE IF plan[e].op = "clone" THEN "naming" ELSE "selecting")
  /\ Reading

\* list_by_user() and the first number no copy has (clone).
NameCopy(e) ==
  LET taken == {rows[i].name : i \in {j \in DOMAIN rows : Mine(e, j)}}
      Copy(k) == Append(found[e], k)
      first == CHOOSE k \in 1 .. Cardinality(Ids) + 1 :
                 Copy(k) \notin taken /\ \A l \in 1 .. k - 1 : Copy(l) \in taken IN
  /\ at[e] = "naming"
  /\ plan' = [plan EXCEPT ![e].name = Copy(first)]
  /\ Go(e, "inserting")
  /\ UNCHANGED <<rows, made, default, found, used, broken>>

\* create(): the unique index refuses a name twice, as an error nobody handles.
Insert(e, i) ==
  LET row == [user |-> plan[e].user, name |-> plan[e].name] IN
  /\ at[e] = "inserting" /\ i \in Ids \ made
  /\ IF Clash(i, row.user, row.name)
     THEN Go(e, "failed") /\ Find(e, Nothing) /\ UNCHANGED <<rows, made>>
     ELSE /\ rows' = [j \in DOMAIN rows \cup {i} |-> IF j = i THEN row ELSE rows[j]]
          /\ made' = made \cup {i}
          /\ Find(e, i) /\ Go(e, "refreshing")
  /\ Elsewhere

\* refresh(): the row just committed may be gone.
Refresh(e) ==
  /\ at[e] = "refreshing"
  /\ Go(e, IF found[e] \in DOMAIN rows THEN "ok" ELSE "failed")
  /\ Reading /\ UNCHANGED found

\* update() and delete() read the row again, in the session that writes it.
Select(e) ==
  LET it == plan[e].persona IN
  /\ at[e] = "selecting"
  /\ Find(e, it)
  /\ Go(e, IF ~Mine(e, it) \/ (plan[e].op = "update" /\ plan[e].name \in Reserved) THEN "refused"
           ELSE IF plan[e].op = "delete" THEN "deleting" ELSE "updating")
  /\ plan' = IF Mine(e, it) /\ rows[it].name = plan[e].name
             THEN [plan EXCEPT ![e].name = Nothing] ELSE plan
  /\ UNCHANGED <<rows, made, default, used, broken>>

\* Only the attributes that differ from what was read are written; a row that
\* went meanwhile is not written again, since its UPDATE matches no row.
Update(e) ==
  LET it == found[e]
      n == plan[e].name IN
  /\ at[e] = "updating"
  /\ IF it \notin DOMAIN rows \/ (n # Nothing /\ Clash(it, plan[e].user, n))
     THEN Go(e, "failed") /\ UNCHANGED rows
     ELSE /\ rows' = IF n = Nothing THEN rows ELSE [rows EXCEPT ![it].name = n]
          /\ Go(e, "refreshing")
  /\ Elsewhere /\ UNCHANGED <<made, found>>

Delete(e) ==
  /\ at[e] = "deleting"
  /\ rows' = [i \in DOMAIN rows \ {found[e]} |-> rows[i]]
  /\ Go(e, "ok")
  /\ Elsewhere /\ UNCHANGED <<made, found>>

\* set_default(): the row of the user is read, then inserted, or updated when
\* what was read differs.
Choose(e) ==
  /\ at[e] = "choosing"
  /\ Find(e, default[plan[e].user])
  /\ Go(e, "preferring")
  /\ Reading

Prefer(e) ==
  LET u == plan[e].user
      row == {plan[e].persona} IN
  /\ at[e] = "preferring"
  /\ IF found[e] = {} /\ default[u] # {}
     THEN Go(e, "failed") /\ UNCHANGED default
     ELSE default' = [default EXCEPT ![u] = IF found[e] = row THEN @ ELSE row] /\ Go(e, "ok")
  /\ UNCHANGED <<rows, made, plan, found, used, broken>>

-----------------------------------------------------------------------------
\* resolve(): the default, then the persona it names; whatever is missing, or
\* a database out of reach, makes it the professional one.
ReadDefault(c) ==
  LET d == Default(UserOf[c]) IN
  /\ at[c] = "new"
  /\ \/ Find(c, d) /\ Go(c, IF d = Nothing THEN "answered" ELSE "resolving")
        /\ used' = [used EXCEPT ![c] = IF d = Nothing THEN Professional ELSE Nothing]
        /\ UNCHANGED broken
     \/ Go(c, "answered") /\ used' = [used EXCEPT ![c] = Professional]
        /\ broken' = broken \cup {c} /\ UNCHANGED found
  /\ Resolving

\* A persona that was found once is found again.
ResolveCached(c) ==
  /\ at[c] = "resolving"
  /\ Go(c, "answered")
  /\ used' = [used EXCEPT ![c] = found[c]]
  /\ Resolving /\ UNCHANGED <<found, broken>>

Resolve(c) ==
  /\ at[c] = "resolving"
  /\ Go(c, "answered")
  /\ \/ /\ used' = [used EXCEPT ![c] = IF Exists(found[c]) THEN found[c] ELSE Professional]
        /\ UNCHANGED broken
     \/ /\ found[c] \notin Presets  \* found without the database
        /\ used' = [used EXCEPT ![c] = Professional] /\ broken' = broken \cup {c}
  /\ Resolving /\ UNCHANGED found

Step ==
  \/ \E e \in Edits :
       \/ \E wish \in Wishes : Begin(e, wish)
       \/ \E i \in Ids : Insert(e, i)
       \/ Look(e) \/ NameCopy(e) \/ Refresh(e) \/ Select(e) \/ Update(e) \/ Delete(e)
       \/ Choose(e) \/ Prefer(e)
  \/ \E c \in Chats : ReadDefault(c) \/ Resolve(c)

\* What a chat could have read when it read, or at any time after.
Watched(c) == <<Default(UserOf[c]), DOMAIN rows \cup Presets>>
Next ==
  /\ Step
  /\ seen' = [c \in Chats |->
                IF at'[c] = "new" \/ at[c] = "answered" THEN seen[c] ELSE seen[c] \cup {Watched(c)'}]
Spec == Init /\ [][Next]_vars

-----------------------------------------------------------------------------
Places == {"new", "refused", "ok", "failed", "looking", "naming", "inserting", "refreshing",
           "selecting", "updating", "deleting", "choosing", "preferring", "resolving", "answered"}

\* Type correctness: the rows have ids that were given out.
TypeOK ==
  /\ DOMAIN rows \subseteq made /\ made \subseteq Ids
  /\ \A i \in DOMAIN rows : rows[i].user \in Users
  /\ default \in [Users -> {{}} \cup {{p} : p \in Ids \cup Presets \cup {Nothing}}]
  /\ at \in [Calls -> Places] /\ broken \subseteq Chats
  /\ \A c \in Chats : used[c] \in Ids \cup Presets \cup {Nothing}

\* The persona of an answer was the user's default, and was there, at some
\* time while the chat looked for it; it is the professional one instead only if
\* the user had no default, the default of some moment was missing in some
\* moment, or the database was out of reach (manager.py:36-62).
ChatsUpToDate ==
  \A c \in {d \in Chats : at[d] = "answered"} :
    LET defaults == {s[1] : s \in seen[c]} IN
    \/ used[c] \in defaults /\ \E s \in seen[c] : used[c] \in s[2]
    \/ /\ used[c] = Professional
       /\ \/ c \in broken \/ Nothing \in defaults
          \/ \E d \in defaults, s \in seen[c] : d \notin s[2]

\* What an edit was told is so: no row of a user has the name of another, what was
\* deleted is never there again (an update that read it before included), and a
\* creation that failed left nothing (repository.py:33-101).
EditsTrue ==
  /\ \A i, j \in DOMAIN rows : rows[i] = rows[j] => i = j
  /\ \A e \in {f \in Edits : plan[f] # Nothing} :
       \/ at[e] = "ok" /\ plan[e].op = "delete"
       \/ at[e] = "failed" /\ plan[e].op \in {"create", "clone"}
       => found[e] \notin DOMAIN rows

\* Both: the personas that answer and that are listed are those the user chose.
PersonasSound == ChatsUpToDate /\ EditsTrue
=============================================================================
