-------------------------------- MODULE Songs ---------------------------------
(***************************************************************************)
(* go/db-test/main.go: the handlers of a song database.  Requests run at   *)
(* the same time; each works on the database, which is external, in a      *)
(* transaction: one writes at a time, on a draft nobody else sees, which   *)
(* becomes the database when it is committed and is lost by a rollback or  *)
(* a crash.  A song is in two buckets, its SongInfo and its file.          *)
(***************************************************************************)
EXTENDS Naturals

CONSTANTS
  Requests,  \* bound: requests there are
  SongNames, \* keys in each bucket
  None

VARIABLES
  db,     \* what is committed: which request wrote each entry of each bucket
  draft,  \* what the open transaction makes of it
  tx,     \* the request whose transaction is open
  req,    \* what each request asks for
  songsPc, \* where its handler is
  ans     \* what it was answered: 200, 400, 404 or 500, and 0 before

SongsAssumption == None \notin Requests

songsVars == <<db, draft, tx, req, songsPc, ans>>

Stored == {"SongInfo", "songfiles", "User", "Stat"}
Asks ==
  [op : {"PostSongs"}, name : SongNames, form : {"good", "incomplete", "unreadable"}]
  \cup [op : {"DeleteSongsName"}, name : SongNames]
  \cup [op : {"Post", "Delete", "Get", "GetAll"}, kind : Stored, name : SongNames]

\* Songs are written by handlers of their own, their files in no other way.
Offered(q) == q.op \in {"Post", "Delete"} => q.kind \in {"User", "Stat"}

Step(r, l) == songsPc' = [songsPc EXCEPT ![r] = l]
Answer(r, code) == ans' = [ans EXCEPT ![r] = code] /\ Step(r, "answered")

\* The deferred Rollback.
Rollback(r, code) == tx' = None /\ Answer(r, code) /\ UNCHANGED <<db, draft, req>>

-----------------------------------------------------------------------------

\* A handler starts.  PostSongs first looks at the form; a file of no bytes cannot
\* be read: Read returns io.EOF.
Start(r) ==
  /\ songsPc[r] = "idle"
  /\ \E q \in Asks :
       /\ Offered(q)
       /\ req' = [req EXCEPT ![r] = q]
       /\ IF q.op = "PostSongs" /\ q.form # "good"
          THEN Answer(r, IF q.form = "incomplete" THEN 400 ELSE 500)
          ELSE /\ Step(r, IF q.op \in {"PostSongs", "DeleteSongsName"} THEN "begin" ELSE "single")
               /\ UNCHANGED ans
  /\ UNCHANGED <<db, draft, tx>>

\* db.Begin(true) waits for the transaction before.
Begin(r) ==
  /\ songsPc[r] = "begin" /\ tx = None
  /\ tx' = r /\ draft' = db
  /\ Step(r, "info")
  /\ UNCHANGED <<db, req, ans>>

\* tx.Save
SaveInfo(r) ==
  /\ songsPc[r] = "info" /\ req[r].op = "PostSongs"
  /\ draft' = [draft EXCEPT !["SongInfo"][req[r].name] = r]
  /\ Step(r, "file")
  /\ UNCHANGED <<db, tx, req, ans>>

\* tx.DeleteStruct
DeleteInfo(r) ==
  /\ songsPc[r] = "info" /\ req[r].op = "DeleteSongsName"
  /\ IF draft["SongInfo"][req[r].name] = None THEN Rollback(r, 404)
     ELSE /\ draft' = [draft EXCEPT !["SongInfo"][req[r].name] = None]
          /\ Step(r, "file")
          /\ UNCHANGED <<db, tx, req, ans>>

\* tx.Set and tx.Delete in SONGFILE_BUCKET
WriteFile_Direct(r) ==  \* mutant: s.db in place of tx
  /\ songsPc[r] = "file"
  /\ LET new == IF req[r].op = "PostSongs" THEN r ELSE None
     IN  /\ db' = [db EXCEPT !["songfiles"][req[r].name] = new]
         /\ draft' = [draft EXCEPT !["songfiles"][req[r].name] = new]
  /\ Step(r, "commit")
  /\ UNCHANGED <<tx, req, ans>>
WriteFile(r) ==
  /\ songsPc[r] = "file"
  /\ draft' = [draft EXCEPT !["songfiles"][req[r].name] =
                 IF req[r].op = "PostSongs" THEN r ELSE None]
  /\ Step(r, "commit")
  /\ UNCHANGED <<db, tx, req, ans>>

Commit(r) ==
  /\ songsPc[r] = "commit"
  /\ db' = draft /\ tx' = None
  /\ Step(r, "done")
  /\ UNCHANGED <<draft, req, ans>>

\* A call of the transaction returns an error.
Fails(r) == songsPc[r] \in {"info", "file", "commit"} /\ Rollback(r, 500)

-----------------------------------------------------------------------------
(* Handlers that are one call of the database: PostUsers, PostStats,       *)
(* DeleteUsersName, DeleteStatsId, and those that get                      *)

Put(r, kind, value) ==
  /\ tx = None
  /\ db' = [db EXCEPT ![kind][req[r].name] = value]

PostOne(r) ==
  /\ songsPc[r] = "single" /\ req[r].op = "Post"
  /\ Put(r, req[r].kind, r)
  /\ Step(r, "done")
  /\ UNCHANGED <<draft, tx, req, ans>>

DeleteOne(r) ==
  /\ songsPc[r] = "single" /\ req[r].op = "Delete" /\ tx = None
  /\ IF db[req[r].kind][req[r].name] = None THEN Answer(r, 404) /\ UNCHANGED db
     ELSE Put(r, req[r].kind, None) /\ Step(r, "done") /\ UNCHANGED ans
  /\ UNCHANGED <<draft, tx, req>>

\* The handler returns, and the answer is sent.
Acknowledge(r) ==
  /\ songsPc[r] = "done"
  /\ Answer(r, 200)
  /\ UNCHANGED <<db, draft, tx, req>>

\* A transaction that reads sees what is committed.
GetOne(r) ==
  /\ songsPc[r] = "single" /\ req[r].op = "Get"
  /\ Answer(r, IF db[req[r].kind][req[r].name] = None THEN 404 ELSE 200)
  /\ UNCHANGED <<db, draft, tx, req>>

GetAll(r) ==
  /\ songsPc[r] = "single" /\ req[r].op = "GetAll"
  /\ Answer(r, 200)
  /\ UNCHANGED <<db, draft, tx, req>>

FailsOne(r) ==
  /\ songsPc[r] = "single"
  /\ Answer(r, 500)
  /\ UNCHANGED <<db, draft, tx, req>>

\* The server ends at any point, also between a commit and its answer, and is
\* started again: what was asked stays without an answer.
Crash ==
  /\ tx' = None
  /\ songsPc' = [r \in Requests |-> IF songsPc[r] \in {"idle", "answered"} THEN songsPc[r] ELSE "lost"]
  /\ UNCHANGED <<db, draft, req, ans>>

Nothing == [kind \in Stored |-> [n \in SongNames |-> None]]
SongsInit ==
  /\ db = Nothing /\ draft = Nothing /\ tx = None
  /\ req = [r \in Requests |-> [op |-> "none"]]
  /\ songsPc = [r \in Requests |-> "idle"]
  /\ ans = [r \in Requests |-> 0]

SongsNext ==
  \/ Crash
  \/ \E r \in Requests :
       \/ Start(r) \/ Begin(r) \/ SaveInfo(r) \/ DeleteInfo(r) \/ WriteFile(r)
       \/ Commit(r) \/ Fails(r) \/ Acknowledge(r)
       \/ PostOne(r) \/ DeleteOne(r) \/ GetOne(r) \/ GetAll(r) \/ FailsOne(r)

SongsSpec == SongsInit /\ [][SongsNext]_songsVars

-----------------------------------------------------------------------------
(* Properties *)

\* A song has its info and its file, both of one upload, or neither, whatever
\* requests run together, fail in between or are cut by a crash.  What is there
\* was written by a request that was told so or, cut by a crash or still
\* unanswered, told nothing: nothing stays of one that was told of a failure.
SongsWhole ==
  /\ \A n \in SongNames : db["SongInfo"][n] = db["songfiles"][n]
  /\ \A kind \in Stored, n \in SongNames :
       db[kind][n] # None => ans[db[kind][n]] \in {0, 200}
=============================================================================
