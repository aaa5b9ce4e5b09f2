------------------------------ MODULE MCCampus ------------------------------
(***************************************************************************)
(* An instance of AgentChat, Chat and Academic (with Files) for TLC.  They *)
(* share no state.  Each behaviour stays with one part of one of them, so  *)
(* that the parts add up and do not multiply:                              *)
(*   turns     two turns of a conversation with the agent, one session     *)
(*   chat      two users, one with two connections, and a conversation     *)
(*   files     uploads and deletions of one content, one course            *)
(*   materials a material that meets the merge of its course               *)
(*   reviews   reviews of one user and merges of two courses               *)
(***************************************************************************)
EXTENDS AgentChat, Chat, Academic, TLC

CONSTANTS u1, c1, s1, t1, t2, e1, e2, h1, k1, k2, k3,
          w1, w2, a, b, f1, f2, m1, m2, p1, p2, q1, q2

VARIABLE part

MCOwnerOf == [c \in Conversations |-> u1]
MCSessionOwner == [s \in Sessions |-> u1]
MCPeerOf == [k \in Conns |-> IF k = k3 THEN e2 ELSE e1]

(* Of two that are interchangeable the second is taken only while the first is busy. *)

\* Redis fails, or the process restarts, while no session is open afterwards; the
\* conversation is deleted in the absence of both.
Turning ==
  /\ Next
  /\ turns[t2] = Idle /\ turns'[t2] # Idle => turns[t1] # Idle
  /\ faults' > 0 => conns'[s1] # "open"
  /\ deletes' \cup removed' # {} => faults' = 0 /\ conns'[s1] = "none"
  /\ conns'[s1] # "none" => \A t \in Turns : turns'[t] = Idle \/ turns'[t].via = s1

\* The third message is sent, and failures are met, by users who have one connection each;
\* so is a message to oneself, which is not
\* the third.
\* The second failure is one of taking back what the first has broken.
Talking ==
  /\ ChatNext
  /\ chatFaults > 0 /\ chatFaults' > chatFaults => \E k \in Conns : cleanupFails(k)
  /\ socks[k2] = "none" /\ socks'[k2] # "none" => socks[k1] # "none"
  /\ nextID' = MaxMessages \/ chatFaults' > 0 => socks'[k2] = "none"
  /\ \A k \in Conns : jobs'[k].to = PeerOf[k] => socks'[k2] = "none" /\ jobs'[k].id < MaxMessages

Ordered ==
  /\ calls[f2] = NoCall /\ calls'[f2] # NoCall => calls[f1] # NoCall
  /\ saves[q2] = NoSave /\ saves'[q2] # NoSave => saves[q1] # NoSave
  /\ merges[p2] = NoMerge /\ merges'[p2] # NoMerge => merges[p1] # NoMerge
  /\ courses'[b].status # "absent" => courses'[a].status # "absent"
  /\ mats'[m2] # Nothing => mats'[m1] # Nothing

NoReviews == \A r \in Rows : reviews'[r] = Nothing
NoSaves == \A q \in Reviewers : saves'[q] = NoSave
NothingFiled == UNION {raced', shared', overdrawn', spoilt'} = {} /\ fileFaults' = 0

Filing == (\E k \in Calls : FileStep(k) \/ FileCall(k)) /\ UNCHANGED <<mats, courseVars>>

ManyFiles ==
  /\ CreateCourse(a) \/ MaterialStep \/ Filing
  /\ raced' # {} => fileFaults' = 0
  /\ raced' # {} \/ fileFaults' > 0 => mats'[m2] = Nothing

MergedMaterial ==
  /\ AcademicNext /\ NoReviews /\ NoSaves /\ clock' <= 1 /\ ~tangled' /\ NothingFiled
  /\ Cardinality({k \in Calls : calls'[k] # NoCall}) <= 1
  /\ \A x \in MD5s : owed'[x] <= 1 /\ held'[x] = [u \in Students |-> 0]

ManyReviews ==
  /\ AcademicStep
  /\ (\A r \in Rows : reviews'[r] # Nothing => reviews'[r].user = w1) /\ \A q \in Reviewers : saves'[q].user # w2
  /\ saves'[q2] # NoSave => clock' <= 2 /\ \A c \in Courses : courses'[c].status # "hidden"
  /\ \/ clock' <= 2
     \/ /\ ~tangled' /\ (crossed' # {} => clock' <= 3)
        /\ \A c \in Courses : courses'[c].status # "hidden"

Library ==
  \/ part = "files" /\ ManyFiles
  \/ part = "materials" /\ MergedMaterial
  \/ part = "reviews" /\ ManyReviews

MCInit ==
  /\ part \in {"turns", "chat", "files", "materials", "reviews"}
  /\ Init /\ ChatInit /\ AcademicInit
MCNext ==
  /\ \/ part = "turns" /\ Turning /\ UNCHANGED <<chatVars, academicVars>>
     \/ part = "chat" /\ Talking /\ UNCHANGED <<vars, academicVars>>
     \/ Library /\ Ordered /\ UNCHANGED <<vars, chatVars>>
  /\ UNCHANGED part
MCSpec == MCInit /\ [][MCNext]_<<vars, chatVars, academicVars, part>>
=============================================================================
