------------------------------- MODULE MCViewer -------------------------------
(* A file of a few lines for FileViewer, and two viewers of it. *)
EXTENDS FileViewer

\* Characters of one and of two bytes, in lines shorter and longer than a chunk.
Line == <<1, NL>>
Wide == <<2, 0>>
Log  == <<Wide \o Wide \o Line \o <<1>>, Wide \o Wide, <<NL>> \o Line>>

\* Reading a file that grows: jumps, scrolling, answers that are lost.
Reading ==
    \/ Open \/ ServerStep \/ LoadNext \/ LoadPrevious
    \/ acts < 2 /\ (JumpToTop \/ JumpToBottom)
    \/ queue # <<>> /\ Write

\* Following it: one trouble of the file or the network, what the user does, and does next.
Untroubled == acts > 0 /\ errors = 0 /\ changes = "appended"
Following ==
    \/ Open \/ AnswerRequest \/ Poll
    \/ queue = <<>> /\ StartFollow
    \/ acts > 0 /\ Write
    \/ /\ Untroubled
       /\ \/ acts = 1 /\ (JumpToTop \/ JumpToBottom \/ Pause \/ StopFollow \/ Visibility \/ PollIdle)
          \/ (acts = 1 \/ (store = "local" /\ queue = <<>>)) /\ (Truncate \/ Delete)
          \/ queue # <<>> /\ Head(queue).for # "load" /\ RequestFails
    \/ acts = 2 /\ (LoadNext \/ LoadPrevious \/ ScrollDown \/ Resume \/ Visibility)
=============================================================================
