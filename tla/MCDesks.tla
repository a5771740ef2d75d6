------------------------------- MODULE MCDesks -------------------------------
(* Seven systems whose handlers race for one row, checked side by side: a  *)
(* behaviour is one of private-session handlers, of skill bookings, of     *)
(* quiz attempts, of a scholarship exam, of a counsellor's appointments,   *)
(* of a forum thread or of a teacher's application, and the others stay as *)
(* they are.                                                               *)
EXTENDS PrivateSession, SkillBooking, QuizAttempt, ScholarshipExam, CounselingDiary,
        ForumThread, FacultyApplication, TLC

CONSTANTS teacher, student, guest,
          h1, h2, h3,  \* requests
          b1, b2,      \* bookings, appointments, answers
          s1, s2,      \* slots
          q1, sweeper

VARIABLE part

desksVars == <<part, sessionVars, bookingVars, attemptVars, examVars, diaryVars, forumVars,
               facultyVars>>

AllOpen == {GridSlots}

Quizzes == {[type |-> "practice", timed |-> FALSE, quota |-> 2, penalty |-> 1],
            [type |-> "mock", timed |-> TRUE, quota |-> 2, penalty |-> 1],
            [type |-> "practice", timed |-> TRUE, quota |-> 1, penalty |-> 0],
            [type |-> "mock", timed |-> FALSE, quota |-> NoAttempt, penalty |-> 1]}

(* One window, in which each of the three times leaves room for a session; *)
(* a session is longer than the look-back.                                 *)
Hours == {[from |-> 0, to |-> 5]}

(* Accepting an answer while it is removed, and reporting one twice at     *)
(* once, go wrong in the code; the invariants claim nothing of them.       *)
KeptApart == {{"accept", "remove"}, {"report"}}

(* The quiz and the first application are looked at only where they move.  *)
DesksInit ==
    /\ part \in {"session", "skill", "quiz", "exam", "diary", "forum", "faculty"}
    /\ BookingInit /\ ExamInit /\ DiaryInit /\ ForumInit /\ FacultyInit
    /\ Init /\ AttemptInit
    /\ part # "quiz" => assigned /\ quiz = CHOOSE k \in Quizzes : TRUE
    /\ part # "faculty" => ~role /\ uploads = 0

DesksNext ==
    \/ part = "session" /\ Next
         /\ UNCHANGED <<part, bookingVars, attemptVars, examVars, diaryVars,
                        forumVars, facultyVars>>
    \/ part = "skill" /\ BookingNext
         /\ UNCHANGED <<part, sessionVars, attemptVars, examVars, diaryVars,
                        forumVars, facultyVars>>
    \/ part = "quiz" /\ AttemptNext
         /\ UNCHANGED <<part, sessionVars, bookingVars, examVars, diaryVars,
                        forumVars, facultyVars>>
    \/ part = "exam" /\ ExamNext
         /\ UNCHANGED <<part, sessionVars, bookingVars, attemptVars, diaryVars,
                        forumVars, facultyVars>>
    \/ part = "diary" /\ DiaryNext
         /\ UNCHANGED <<part, sessionVars, bookingVars, attemptVars, examVars,
                        forumVars, facultyVars>>
    \/ part = "forum" /\ ForumNext
         /\ UNCHANGED <<part, sessionVars, bookingVars, attemptVars, examVars,
                        diaryVars, facultyVars>>
    \/ part = "faculty" /\ FacultyNext
         /\ UNCHANGED <<part, sessionVars, bookingVars, attemptVars, examVars,
                        diaryVars, forumVars>>

DesksSpec == DesksInit /\ [][DesksNext]_desksVars

Symmetry == Permutations({h1, h2}) \cup Permutations({b1, b2}) \cup Permutations({s1, s2})

(* What four desks hand out: a skill slot belongs to one booking and is    *)
(* free only without one (skills/views.py); a counsellor's booked hours,   *)
(* reviews and reports agree (counseling/views.py); an accepted answer is  *)
(* there, shown, and marks its thread solved (forum/moderation_views.py);  *)
(* a teacher's approval, role, documents and signature agree (accounts/).  *)
DeskBooksInv ==
    /\ part = "skill" => BookingInv
    /\ part = "diary" => DiaryInv
    /\ part = "forum" => ForumInv
    /\ part = "faculty" => FacultyInv
=============================================================================
