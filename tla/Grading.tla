------------------------------- MODULE Grading -------------------------------
(***************************************************************************)
(* Lab - 5/Lab Task/ops-lab.c: a teacher calls a roll and grades the       *)
(* stages of students, who all write to one pipe and have a pipe each for  *)
(* the answers.  A student whose stage has failed gets no answer before    *)
(* the "done" at the end.  Messages of 100 bytes are atomic; whatever the  *)
(* teacher reads in the roll call is the answer it waits for.              *)
(*                                                                         *)
(* An operator named Faulty... is the definition that follows it with a    *)
(* plausible mistake in it; no specification uses one.                     *)
(***************************************************************************)
EXTENDS Naturals, Sequences, FiniteSets

CONSTANTS Students,  \* n: they are 1..Students, at least 4 in the code
          Stages,    \* of each student, 4 in the code
          Enough     \* the done students that end the grading at once, 4 in the code

VARIABLES tea, asked,      \* where the teacher is, and at which student
          done, alarmed,   \* done_students, and whether SIGALRM has come
          stu, stage,      \* where each student is, and the stages it has passed
          desk, letters    \* the pipe to the teacher, the pipe to each student

Class == 1..Students
TeaEnds == {"ended", "killed", "sigpipe"}
Message == [kind : {"here", "result", "final"}, of : Class]

TypeOK ==
  /\ tea \in {"ask", "roll", "test", "grade", "finish", "final", "wait"} \cup TeaEnds
  /\ asked \in 1..Students + 1 /\ done \in 0..Students /\ alarmed \in BOOLEAN
  /\ stu \in [Class -> {"call", "here", "work", "await", "final", "leave", "gone", "killed"}]
  /\ stage \in [Class -> 0..Stages]
  /\ desk \in Seq(Message) /\ letters \in [Class -> Seq({"roll", "1", "done"})]

Init ==
  /\ tea = "ask" /\ asked = 1 /\ done = 0 /\ alarmed = FALSE
  /\ stu = [s \in Class |-> "call"] /\ stage = [s \in Class |-> 0]
  /\ desk = <<>> /\ letters = [s \in Class |-> <<>>]

-----------------------------------------------------------------------------
(* teacher_work *)

TeaGoes(from, to) == tea = from /\ tea' = to
Posts(s, m) == letters' = [letters EXCEPT ![s] = Append(@, m)]

\* ERR kills the process group.
AllKilled == tea' = "killed" /\ stu' = [s \in Class |-> IF stu[s] = "gone" THEN "gone" ELSE "killed"]

Ask ==
  /\ TeaGoes("ask", "roll") /\ Posts(asked, "roll")
  /\ UNCHANGED <<asked, done, alarmed, stu, stage, desk>>

RollCall ==
  /\ desk # <<>> /\ TeaGoes("roll", IF asked = Students THEN "test" ELSE "ask")
  /\ desk' = Tail(desk) /\ asked' = IF asked = Students THEN 1 ELSE asked + 1
  /\ UNCHANGED <<done, alarmed, stu, stage, letters>>

Alarm ==
  /\ tea \in {"test", "grade"} /\ ~alarmed /\ alarmed' = TRUE
  /\ UNCHANGED <<tea, asked, done, stu, stage, desk, letters>>

\* The loop looks for the alarm before a read, which the alarm does not end.
Test ==
  /\ TeaGoes("test", IF alarmed \/ done = Enough THEN "finish" ELSE "grade")
  /\ UNCHANGED <<asked, done, alarmed, stu, stage, desk, letters>>

\* Only a result can be parsed; one that is good enough gets an answer.
Grade ==
  /\ tea = "grade" /\ desk # <<>> /\ desk' = Tail(desk)
  /\ LET m == Head(desk) IN
       \/ m.kind # "result" /\ AllKilled /\ UNCHANGED <<done, letters>>
       \/ /\ m.kind = "result" /\ Posts(m.of, "1")
          /\ done' = IF stage[m.of] + 1 = Stages THEN done + 1 ELSE done
          /\ tea' = IF done' = Students THEN "finish" ELSE "test"
          /\ UNCHANGED stu
       \/ m.kind = "result" /\ tea' = "test" /\ UNCHANGED <<done, letters, stu>>
  /\ UNCHANGED <<asked, alarmed, stage>>

\* "done" to one that has left kills the teacher by SIGPIPE.
TellDone ==
  /\ tea = "finish"
  /\ IF stu[asked] = "gone" THEN TeaGoes("finish", "sigpipe") /\ UNCHANGED letters
     ELSE TeaGoes("finish", "final") /\ Posts(asked, "done")
  /\ UNCHANGED <<asked, done, alarmed, stu, stage, desk>>

\* Whose message it is does not matter: two numbers begin a result as well.
ReadFinal ==
  /\ tea = "final" /\ desk # <<>> /\ desk' = Tail(desk)
  /\ IF Head(desk).kind = "here" THEN AllKilled /\ UNCHANGED asked
     ELSE /\ tea' = IF asked = Students THEN "wait" ELSE "finish"
          /\ asked' = asked + 1 /\ UNCHANGED stu
  /\ UNCHANGED <<done, alarmed, stage, letters>>

WaitStudents ==
  /\ (\A s \in Class : stu[s] \in {"gone", "killed"}) /\ TeaGoes("wait", "ended")
  /\ UNCHANGED <<asked, done, alarmed, stu, stage, desk, letters>>

Teacher == Ask \/ RollCall \/ Test \/ Grade \/ TellDone \/ ReadFinal \/ WaitStudents

-----------------------------------------------------------------------------
(* student_work *)

StuGoes(s, from, to) ==
  stu[s] = from /\ stu' = [stu EXCEPT ![s] = to] /\ UNCHANGED <<tea, asked, done, alarmed>>

\* A write to the pipe of a teacher that has ended kills the student.
Writes(s, from, to, kind) ==
  /\ IF tea \in TeaEnds THEN StuGoes(s, from, "killed") /\ UNCHANGED desk
     ELSE StuGoes(s, from, to) /\ desk' = Append(desk, [kind |-> kind, of |-> s])
  /\ UNCHANGED <<stage, letters>>

Called(s) ==
  /\ letters[s] # <<>> /\ letters' = [letters EXCEPT ![s] = Tail(@)]
  /\ StuGoes(s, "call", "here") /\ UNCHANGED <<stage, desk>>

Here(s) == Writes(s, "here", "work", "here")
Work(s) == Writes(s, "work", "await", "result")

FaultyAnswered(s) ==
  /\ letters[s] # <<>> /\ letters' = [letters EXCEPT ![s] = Tail(@)]
  /\ stage' = [stage EXCEPT ![s] = @ + 1]
  /\ StuGoes(s, "await", IF stage'[s] = Stages THEN "final" ELSE "work")
  /\ UNCHANGED desk

\* "1": the next stage; "done": the same once more.
Answered(s) ==
  /\ letters[s] # <<>> /\ letters' = [letters EXCEPT ![s] = Tail(@)]
  /\ stage' = [stage EXCEPT ![s] = IF Head(letters[s]) = "1" THEN @ + 1 ELSE @]
  /\ StuGoes(s, "await", IF stage'[s] = Stages THEN "final" ELSE "work")
  /\ UNCHANGED desk

Final(s) == Writes(s, "final", "leave", "final")
Leave(s) == StuGoes(s, "leave", "gone") /\ UNCHANGED <<stage, desk, letters>>

Student(s) == Called(s) \/ Here(s) \/ Work(s) \/ Answered(s) \/ Final(s) \/ Leave(s)

Next == Teacher \/ Alarm \/ \E s \in Class : Student(s)

-----------------------------------------------------------------------------
(* Properties *)

Unread(s, l) == {k \in 1..Len(letters[s]) : letters[s][k] = l}

\* However messages and answers cross: a student has at most one answer it has not read,
\* waits for it, and the done students are those that have, or are told, the last one
\* (ops-lab.c:72-90, 155-166).
GradesAgree ==
  tea # "killed" =>
    /\ \A s \in Class : Unread(s, "1") # {} =>
         stu[s] = "await" /\ Cardinality(Unread(s, "1")) = 1 /\ stage[s] < Stages
    /\ done = Cardinality({s \in Class : stage[s] = Stages \/ (stage[s] = Stages - 1 /\ Unread(s, "1") # {})})

\* It ends well, by ERR or by SIGPIPE; or the teacher waits for a message when no student
\* is to send one, or for students that wait for an answer (ops-lab.c:119-121, 283).
GradingRests ==
  \/ tea \in TeaEnds
  \/ tea \in {"grade", "final", "wait"} /\ (tea = "wait" \/ desk = <<>>)
     /\ \A s \in Class : stu[s] \in {"gone", "killed"} \/ (stu[s] = "await" /\ letters[s] = <<>>)
=============================================================================
