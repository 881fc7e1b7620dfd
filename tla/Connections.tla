---------------------------- MODULE Connections -----------------------------
(***************************************************************************)
(* The stored connections of one provider                                  *)
(* (src/lib/db/repos/connectionsRepo.js): logins and keys are merged into  *)
(* the row they belong to or get one of their own, rows are ranked by      *)
(* priority, and the requests that edit, refresh or delete them overlap.   *)
(*                                                                         *)
(* Every repository function is one SQLite transaction.  The routes around *)
(* it are not: PUT /api/providers/[id] reads a row, waits and writes, and  *)
(* a token refresh writes what it derived from the row it started with.    *)
(* Health fields are AccountPool's, tokens TokenRefresh's.                 *)
(***************************************************************************)
EXTENDS Integers, Sequences, FiniteSets, SequencesExt

CONSTANTS Accounts,   \* the people's accounts: [email, user, ws], 0 for none
          Names,      \* the names API keys are saved under
          Handlers,   \* requests that hold a row over an await
          MaxRows     \* bound: rows ever created

ASSUME ConnectionsAssumption ==
    /\ Accounts \subseteq [email : Nat \ {0}, user : Nat, ws : Nat]
    /\ MaxRows \in Nat

VARIABLES codex,    \* is the provider Codex?  It never changes
          rows,     \* id -> row
          created,  \* rows created so far: ids are 1..created
          recency,  \* the ids, latest updatedAt first
          pending   \* handler -> what it read and is about to write

connectionsVars == <<codex, rows, created, recency, pending>>

Idle == [op |-> "idle"]

\* A row: authType, email, name and priority; providerSpecificData as the login's
\* user and workspace; and, as a ghost, the accounts whose tokens the row has held.
Row(auth, email, name, priority, psd, owners) ==
    [auth |-> auth, email |-> email, name |-> name, priority |-> priority,
     psd |-> psd, owners |-> owners]
Psd(user, ws) == [user |-> user, ws |-> ws]
-----------------------------------------------------------------------------
Touched(id) == <<id>> \o SelectSeq(recency, LAMBDA j : j # id)

\* The place of an id in a sequence of ids.
Place(ids, id) == CHOOSE i \in DOMAIN ids : ids[i] = id

\* A plausible fault: the priorities are not looked at.
MutantByUpdate(table, recent) ==
    [id \in DOMAIN table |-> [table[id] EXCEPT !.priority = Place(recent, id)]]

\* reorderInTx: by priority, of equals the one updated last first; then 1, 2, ...
Reordered(table, recent) ==
    LET ahead(id) == {j \in DOMAIN table \ {id} :
                        \/ table[j].priority < table[id].priority
                        \/ /\ table[j].priority = table[id].priority
                           /\ Place(recent, j) < Place(recent, id)}
    IN [id \in DOMAIN table |-> [table[id] EXCEPT !.priority = Cardinality(ahead(id)) + 1]]

\* A plausible fault: a row's email is taken for its identity.
MutantByEmail(row, email, psd) == row.auth = "oauth" /\ row.email = email

\* Does a login with this email and data belong to the row?
SameIdentity(row, email, psd) ==
    /\ row.auth = "oauth"
    /\ row.email = email
    /\ IF codex THEN psd.ws # 0 /\ row.psd.ws = psd.ws
       ELSE IF psd.ws # 0 \/ row.psd.ws # 0 THEN psd.ws = row.psd.ws
       ELSE psd.user = row.psd.user

Highest == IF rows = <<>> THEN 0
           ELSE CHOOSE p \in {rows[i].priority : i \in DOMAIN rows} :
                    \A i \in DOMAIN rows : rows[i].priority <= p

\* createProviderConnection: of the known rows, those that match, the first takes the
\* new data and keeps its place; if there is none a new row is ranked.  priority 0:
\* none given.
Create(row, known) ==
    LET id == CHOOSE i \in known : \A j \in known : i <= j
        old == rows[id]
        new == created + 1
        place == IF row.priority = 0 THEN Highest + 1 ELSE row.priority
        table == [i \in DOMAIN rows \union {new} |->
                     IF i = new THEN [row EXCEPT !.priority = place] ELSE rows[i]]
    IN IF known # {}
       THEN /\ rows' = [rows EXCEPT ![id] =
                           [row EXCEPT !.priority = IF @ = 0 THEN old.priority ELSE @,
                                       !.owners = @ \union old.owners]]
            /\ recency' = Touched(id)
            /\ UNCHANGED created
       ELSE /\ new <= MaxRows
            /\ created' = new
            /\ recency' = <<new>> \o recency
            /\ rows' = Reordered(table, recency')

\* A plausible fault: the row is written as it is, whether or not it is still there.
MutantUpsert(id, row, ranks) ==
    LET gone == Row("access_token", 0, 0, 1, Psd(0, 0), {})
        table == [i \in DOMAIN rows \union {id} |->
                     IF i # id THEN rows[i] ELSE IF id \in DOMAIN rows THEN row ELSE gone]
    IN /\ recency' = Touched(id)
       /\ rows' = IF ranks THEN Reordered(table, recency') ELSE table

\* updateProviderConnection: row is what is there now, with the new fields over it; a
\* row that is gone stays gone.
Update(id, row, ranks) ==
    IF id \notin DOMAIN rows THEN UNCHANGED <<rows, recency>>
    ELSE LET table == [rows EXCEPT ![id] = row]
         IN /\ recency' = Touched(id)
            /\ rows' = IF ranks THEN Reordered(table, recency') ELSE table
-----------------------------------------------------------------------------
ConnectionsInit ==
    /\ codex \in BOOLEAN
    /\ rows = <<>> /\ created = 0 /\ recency = <<>>
    /\ pending = [h \in Handlers |-> Idle]

\* A login is completed.  Codex's token need not name the workspace.
Login(a, ws) ==
    /\ ws = a.ws \/ (codex /\ ws = 0)
    /\ LET psd == Psd(a.user, ws)
       IN Create(Row("oauth", a.email, 0, 0, psd, {a}),
                 {i \in DOMAIN rows : SameIdentity(rows[i], a.email, psd)})
    /\ UNCHANGED <<codex, pending>>

\* An imported access token never merges.
ImportToken ==
    /\ Create(Row("access_token", 0, 0, 0, Psd(0, 0), {}), {})
    /\ UNCHANGED <<codex, pending>>

\* POST /api/providers: a key goes first, and a key of that name is replaced.
AddKey(name) ==
    /\ Create(Row("apikey", 0, name, 1, Psd(0, 0), {}),
              {i \in DOMAIN rows : rows[i].auth = "apikey" /\ rows[i].name = name})
    /\ UNCHANGED <<codex, pending>>

Without(id) ==
    LET recent == SelectSeq(recency, LAMBDA j : j # id)
    IN /\ recency' = recent
       /\ rows' = Reordered([i \in DOMAIN rows \ {id} |-> rows[i]], recent)

Delete(id) == Without(id) /\ UNCHANGED <<codex, created, pending>>

\* PUT: the row is read, and its providerSpecificData will be written back whole,
\* whichever field the user edits; a priority (0: none) ranks the rows again ...
BeginPut(h, id, priority) ==
    /\ pending[h] = Idle
    /\ pending' = [pending EXCEPT ![h] = [op |-> "put", id |-> id, psd |-> rows[id].psd,
                                          priority |-> priority]]
    /\ UNCHANGED <<codex, rows, created, recency>>

\* ... and what was asked is written over what is there by then.
FinishPut(h) ==
    LET p == pending[h]
    IN /\ p.op = "put"
       /\ Update(p.id, [rows[p.id] EXCEPT !.psd = p.psd,
                             !.priority = IF p.priority = 0 THEN @ ELSE p.priority],
                 p.priority # 0)
       /\ pending' = [pending EXCEPT ![h] = Idle]
       /\ UNCHANGED <<codex, created>>

\* A token refresh starts from the credentials of a row ...
BeginRefresh(h, id) ==
    /\ pending[h] = Idle
    /\ rows[id].auth = "oauth"
    /\ pending' = [pending EXCEPT ![h] = [op |-> "refresh", id |-> id, psd |-> rows[id].psd]]
    /\ UNCHANGED <<codex, rows, created, recency>>

\* ... and, if the provider answers with data of its own, writes that over the data
\* it started from.
FinishRefresh(h, answers) ==
    LET p == pending[h]
    IN /\ p.op = "refresh"
       /\ Update(p.id, IF answers THEN [rows[p.id] EXCEPT !.psd = p.psd] ELSE rows[p.id], FALSE)
       /\ pending' = [pending EXCEPT ![h] = Idle]
       /\ UNCHANGED <<codex, created>>

Put(h) == \/ \E id \in DOMAIN rows, p \in 0..Len(recency) : BeginPut(h, id, p)
          \/ FinishPut(h)

\* The steps in which the user ranks the rows.
Ranks == \/ \E name \in Names : AddKey(name)
         \/ \E h \in Handlers : FinishPut(h) /\ pending[h].priority # 0

ConnectionsNext ==
    \/ \E a \in Accounts : Login(a, a.ws) \/ Login(a, 0)
    \/ ImportToken
    \/ \E name \in Names : AddKey(name)
    \/ \E id \in DOMAIN rows : Delete(id)
    \/ \E h \in Handlers :
          \/ Put(h)
          \/ \E id \in DOMAIN rows : BeginRefresh(h, id)
          \/ \E answers \in BOOLEAN : FinishRefresh(h, answers)

ConnectionsSpec == ConnectionsInit /\ [][ConnectionsNext]_connectionsVars
-----------------------------------------------------------------------------
\* However logins, refreshes and edits are ordered, a row holds the tokens of one
\* account, and an account whose logins say who it is has one row.
AccountsStaySeparate ==
    LET logins == {i \in DOMAIN rows : rows[i].auth = "oauth"}
    IN /\ \A i \in logins : Cardinality(rows[i].owners) = 1
       /\ \A i, j \in logins :
             /\ rows[i].owners = rows[j].owners
             /\ codex => rows[i].psd.ws # 0 /\ rows[j].psd.ws # 0
             => i = j

\* A request that outlives its connection does not bring it back.
DeletedStaysDeleted ==
    [][\A i \in 1..created : i \notin DOMAIN rows => i \notin DOMAIN rows']_connectionsVars

\* The order in which accounts are tried: by priority, of equals the older row.
Before(table, i, j) == \/ table[i].priority < table[j].priority
                       \/ table[i].priority = table[j].priority /\ i < j
Distinct == \A i, j \in DOMAIN rows : rows[i].priority = rows[j].priority => i = j

\* Only ranking them changes the order of two rows: no login, refresh, edit, import
\* or deletion of another does, and what is added goes last.  (A key saved again under
\* its name shares priority 1 with the row that has it until the next renumbering, which
\* breaks the tie by the last update: from such a state nothing is claimed.)
OrderKept ==
    [][~Ranks /\ Distinct =>
          /\ \A i, j \in DOMAIN rows \cap DOMAIN rows' :
                Before(rows, i, j) => Before(rows', i, j)
          /\ \A i \in DOMAIN rows, j \in DOMAIN rows' \ DOMAIN rows : Before(rows', i, j)]_connectionsVars
=============================================================================
