------------------------------ MODULE PageReply ------------------------------
(***************************************************************************)
(* What a browser may rely on when it asks a Pushup application for a      *)
(* page, without goroutines, channels or deadlines.  A request has a       *)
(* document due to it (the pieces of the layout that apply to the page).   *)
(* It is answered at most once, with the whole document, with what the     *)
(* page's own handler wrote, with an error, or with the deadline's empty   *)
(* reply; or the server process dies before it answers.                    *)
(***************************************************************************)
CONSTANT Piece          \* the pieces a document can be made of

VARIABLES
  due,                  \* the pieces of this request's document
  answer,               \* what the browser has got, or "pending"
  body                  \* the pieces of the document in that answer

replyVars == <<due, answer, body>>

Init ==
  /\ due \in SUBSET Piece
  /\ answer = "pending"
  /\ body = {}

AnswerPage ==
  /\ answer = "pending"
  /\ answer' = "page"
  /\ body' = due
  /\ UNCHANGED due

\* The handler's own reply and the deadline's reply carry no piece of the
\* document.
AnswerEmpty ==
  /\ answer = "pending"
  /\ answer' \in {"own", "timeout"}
  /\ UNCHANGED <<due, body>>

\* An error may follow what the layout had already written.
AnswerError ==
  /\ answer = "pending"
  /\ answer' \in {"error", "garbled"}
  /\ body' \in SUBSET due
  /\ (answer' = "error") = (body' = {})
  /\ UNCHANGED due

Die ==
  /\ answer = "pending"
  /\ answer' = "lost"
  /\ UNCHANGED <<due, body>>

Next == AnswerPage \/ AnswerEmpty \/ AnswerError \/ Die

Spec == Init /\ [][Next]_replyVars /\ WF_replyVars(Next)
=============================================================================
