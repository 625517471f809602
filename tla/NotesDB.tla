------------------------------ MODULE NotesDB ------------------------------
(***************************************************************************)
(* The note server of examples/jsond.cc: its database and handle(), which  *)
(* turns one request into one response.  JSON is abstracted to what handle *)
(* looks at: a body is an object or not (well), and each of the fields     *)
(* title and body is absent, a string, or something else (NotText).        *)
(***************************************************************************)
EXTENDS Integers, FiniteSets

CONSTANTS Text,     \* the strings of notes
          Absent,   \* the field is missing
          NotText   \* the field is not a string

\* What a client asks for.
Content == Text \cup {Absent, NotText}
NoteRequest == [method : STRING, path : STRING, id : Nat, well : BOOLEAN,
                title : Content, body : Content]

\* notes_db: the notes by id, and next_id_.  A note's `by`, the request that
\* created it, is a history variable.
NoNotes == [notes |-> [id \in {} |-> 0], next |-> 1]

\* Wrong: the smallest id that is free.
WrongNextId(db) == Cardinality(DOMAIN db.notes) + 1
NextId(db) == db.next

Create(db, note) ==
  [notes |-> [id \in DOMAIN db.notes \cup {NextId(db)} |->
                IF id = NextId(db) THEN note ELSE db.notes[id]],
   next |-> NextId(db) + 1]

Change(db, id, note) == [db EXCEPT !.notes[id] = note]

Erase(db, id) == [db EXCEPT !.notes = [i \in DOMAIN db.notes \ {id} |-> db.notes[i]]]

\* A response: its status and the notes it shows.
Shows(status, db, ids) == [status |-> status, notes |-> [id \in ids |-> db.notes[id]]]
Error(status) == Shows(status, NoNotes, {})

\* What a request does: its response and the database after it.
Effect(response, db) == [response |-> response, db |-> db]
Refuse(status, db) == Effect(Error(status), db)

\* /notes.  The request bears the tag.
Collection(req, tag, db) ==
  CASE req.method = "GET" -> Effect(Shows(200, db, DOMAIN db.notes), db)
    [] req.method = "POST" ->
         IF req.well /\ req.title \in Text /\ req.body \in Text
         THEN LET new == Create(db, [title |-> req.title, body |-> req.body, by |-> tag]) IN
              Effect(Shows(201, new, {NextId(db)}), new)
         ELSE Refuse(400, db)
    [] OTHER -> Refuse(405, db)

\* A field of a PUT: absent means unchanged.
Field(new, old) == IF new = Absent THEN old ELSE new

\* PUT /notes/<id>.  The title is changed before the body is looked at.
Put(req, db) ==
  LET note == db.notes[req.id]
      titled == Change(db, req.id, [note EXCEPT !.title = Field(req.title, @)])
      done == Change(titled, req.id, [titled.notes[req.id] EXCEPT !.body = Field(req.body, @)]) IN
  IF ~req.well \/ req.title = NotText THEN Refuse(400, db)
  ELSE IF req.body = NotText THEN Refuse(400, titled)
  ELSE Effect(Shows(200, done, {req.id}), done)

\* /notes/<id>.
PerNote(req, db) ==
  LET found == req.id \in DOMAIN db.notes IN
  CASE req.method = "GET" /\ found -> Effect(Shows(200, db, {req.id}), db)
    [] req.method = "PUT" /\ found -> Put(req, db)
    [] req.method = "DELETE" /\ found -> Effect(Shows(200, db, {}), Erase(db, req.id))
    [] req.method \in {"GET", "PUT", "DELETE"} /\ ~found -> Refuse(404, db)
    [] OTHER -> Refuse(405, db)

\* handle().  /stats counts the notes and tells at most five ids.
Handle(req, tag, db) ==
  CASE req.path = "/notes" -> Collection(req, tag, db)
    [] req.path = "/notes/<id>" -> PerNote(req, db)
    [] req.path = "/stats" /\ req.method = "GET" -> Effect(Shows(200, db, DOMAIN db.notes), db)
    [] OTHER -> Refuse(404, db)
=============================================================================
