------------------------------ MODULE IqmProofs ------------------------------
(* Theorems about the monitor of the IQM backend: what is reported of a job, *)
(* that jobs stay monitored, and that cancels are not lost.                  *)
EXTENDS IqmMonitor, SequenceTheorems, TLAPS

USE DEF serverVars, pollVars, monitorVars, launcherVars

-----------------------------------------------------------------------------
(* The channel of the monitor. *)

(* The commands on their way. *)
Commands == {monitor_receiver[k] : k \in DOMAIN monitor_receiver}

Refusal(t)    == [op |-> "cancel_done", of |-> t, ok |-> FALSE]
Acceptance(t) == [op |-> "cancel_done", of |-> t, ok |-> TRUE]

Announced(t)        == Cmd("new", t) \in Commands
CancelSent(t)       == Cmd("cancel", t) \in Commands
CancelFailed(t)     == Refusal(t) \in Commands
CancelAccepted(t)   == Acceptance(t) \in Commands
StopSent            == Cmd("stop", NoTask) \in Commands

(* A command is in the channel at most once. *)
Single(command) ==
  \A k, l \in DOMAIN monitor_receiver :
    monitor_receiver[k] = command /\ monitor_receiver[l] = command => k = l

LEMMA CommandsAreOnTheirWay == \A c : OnItsWay(c) <=> c \in Commands
  BY DEF OnItsWay, Commands

LEMMA CommandTypes ==
  /\ \A t \in Task : Cmd("new", t) \in Command /\ Cmd("cancel", t) \in Command
  /\ Cmd("stop", NoTask) \in Command
  /\ \A t \in Task : Refusal(t) \in Command /\ Acceptance(t) \in Command
  BY DEF Command, Cmd, Refusal, Acceptance

(* Commands differ in what they are, in their task or in their result. *)
LEMMA CommandsDiffer ==
  /\ \A o, p, t, r : Cmd(o, t) = Cmd(p, r) => o = p /\ t = r
  /\ \A t, r : Refusal(t) # Acceptance(r)
  /\ \A t, r : Refusal(t) = Refusal(r) \/ Acceptance(t) = Acceptance(r) => t = r
  /\ \A o, t, r : o # "cancel_done" => Cmd(o, t) # Refusal(r) /\ Cmd(o, t) # Acceptance(r)
  <1>1. \A o, t : Cmd(o, t).op = o /\ Cmd(o, t).of = t
    BY DEF Cmd
  <1>2. \A t : /\ Refusal(t).op = "cancel_done" /\ Refusal(t).of = t
               /\ Acceptance(t).op = "cancel_done" /\ Acceptance(t).of = t
    BY DEF Refusal, Acceptance
  <1>3. \A t, r : Refusal(t) # Acceptance(r)
    <2>1. \A t : Refusal(t).ok = FALSE /\ Acceptance(t).ok = TRUE
      BY DEF Refusal, Acceptance
    <2>. QED  BY <2>1
  <1>. QED  BY <1>1, <1>2, <1>3

(* A command is what its fields say. *)
LEMMA CommandIsItsFields ==
  ASSUME NEW c \in Command
  PROVE  /\ c.op # "cancel_done" => c = Cmd(c.op, c.of)
         /\ c.op = "cancel_done" => /\ c.ok \in BOOLEAN
                                    /\ c.ok => c = Acceptance(c.of)
                                    /\ ~c.ok => c = Refusal(c.of)
  <1>1. CASE c \in [op : {"new", "cancel", "stop"}, of : Task \cup {NoTask}]
    BY <1>1 DEF Cmd
  <1>2. CASE c \in [op : {"cancel_done"}, of : Task, ok : BOOLEAN]
    <2>1. c = [op |-> "cancel_done", of |-> c.of, ok |-> c.ok] /\ c.ok \in BOOLEAN
          /\ c.op = "cancel_done"
      BY <1>2
    <2>2. c.ok = TRUE \/ c.ok = FALSE
      BY <2>1
    <2>3. CASE c.ok = TRUE
      BY <2>1, <2>3 DEF Acceptance
    <2>4. CASE c.ok = FALSE
      BY <2>1, <2>4 DEF Refusal
    <2>. QED  BY <2>1, <2>2, <2>3, <2>4
  <1>. QED  BY <1>1, <1>2 DEF Command

(* One command sent. *)
LEMMA Sent ==
  ASSUME TypeOK, NEW c \in Command, SendAll(<<c>>)
  PROVE  /\ monitor_receiver' \in Seq(Command)
         /\ Commands' = IF running THEN Commands \cup {c} ELSE Commands
         /\ \A d : Single(d) /\ (d # c \/ d \notin Commands) => Single(d)'
  <1>1. CASE running
    <2>. DEFINE q == monitor_receiver
    <2>1. q \in Seq(Command) /\ monitor_receiver' = q \o <<c>>
      BY <1>1 DEF SendAll, TypeOK
    <2>2. /\ monitor_receiver' \in Seq(Command)
          /\ DOMAIN monitor_receiver' = DOMAIN q \cup {Len(q) + 1}
          /\ \A k \in DOMAIN q : monitor_receiver'[k] = q[k]
          /\ monitor_receiver'[Len(q) + 1] = c
          /\ Len(q) + 1 \notin DOMAIN q
      BY <2>1
    <2>. HIDE DEF q
    <2>3. Commands' = Commands \cup {c}
      BY <2>2 DEF Commands, q
    <2>4. \A d : Single(d) /\ (d # c \/ d \notin Commands) => Single(d)'
      BY <2>2 DEF Commands, Single, q
    <2>. QED  BY <1>1, <2>2, <2>3, <2>4
  <1>2. CASE ~running
    BY <1>2 DEF SendAll, Commands, Single, TypeOK
  <1>. QED  BY <1>1, <1>2

(* Two commands sent. *)
LEMMA SentBoth ==
  ASSUME TypeOK, NEW c \in Command, NEW d \in Command, c # d, SendAll(<<c, d>>)
  PROVE  /\ monitor_receiver' \in Seq(Command)
         /\ Commands' = IF running THEN Commands \cup {c, d} ELSE Commands
         /\ \A e : Single(e) /\ (e \notin {c, d} \/ e \notin Commands) => Single(e)'
  <1>1. CASE running
    <2>. DEFINE q == monitor_receiver
    <2>1. q \in Seq(Command) /\ monitor_receiver' = q \o <<c, d>>
      BY <1>1 DEF SendAll, TypeOK
    <2>2. /\ monitor_receiver' \in Seq(Command)
          /\ DOMAIN monitor_receiver' = DOMAIN q \cup {Len(q) + 1, Len(q) + 2}
          /\ \A k \in DOMAIN q : monitor_receiver'[k] = q[k]
          /\ monitor_receiver'[Len(q) + 1] = c /\ monitor_receiver'[Len(q) + 2] = d
          /\ Len(q) + 1 \notin DOMAIN q /\ Len(q) + 2 \notin DOMAIN q
      BY <2>1
    <2>. HIDE DEF q
    <2>3. Commands' = Commands \cup {c, d}
      BY <2>2 DEF Commands, q
    <2>4. \A e : Single(e) /\ (e \notin {c, d} \/ e \notin Commands) => Single(e)'
      BY <2>2 DEF Commands, Single, q
    <2>. QED  BY <1>1, <2>2, <2>3, <2>4
  <1>2. CASE ~running
    BY <1>2 DEF SendAll, Commands, Single, TypeOK
  <1>. QED  BY <1>1, <1>2

(* A command taken. *)
LEMMA Taken ==
  ASSUME TypeOK, NEW op, NEW t, Take(op, t)
  PROVE  \E c \in Commands :
           /\ c \in Command /\ c.op = op /\ c.of = t /\ c = Head(monitor_receiver)
           /\ monitor_receiver' \in Seq(Command)
           /\ Commands' \subseteq Commands /\ Commands \subseteq Commands' \cup {c}
           /\ Single(c) => c \notin Commands'
           /\ \A d : Single(d) => Single(d)'
  <1>. DEFINE q == monitor_receiver
  <1>1. q \in Seq(Command) /\ q # <<>> /\ monitor_receiver' = Tail(q)
    BY DEF TypeOK, Take
  <1>. HIDE DEF q
  <1>2. /\ 1 \in DOMAIN q /\ Head(q) = q[1] /\ q[1] \in Command /\ Tail(q) \in Seq(Command)
        /\ \A k \in DOMAIN Tail(q) :
             k + 1 \in DOMAIN q /\ k + 1 # 1 /\ Tail(q)[k] = q[k + 1] /\ k \in Nat
        /\ \A k \in DOMAIN q : k # 1 => k - 1 \in DOMAIN Tail(q)
                                        /\ Tail(q)[k - 1] = q[k]
    BY <1>1
  <1>3. q[1] \in Commands
    BY <1>2 DEF Commands, q
  <1>4. Commands' \subseteq Commands
    BY <1>1, <1>2 DEF Commands, q
  <1>5. Commands \subseteq Commands' \cup {q[1]}
    <2>1. ASSUME NEW k \in DOMAIN q, k # 1 PROVE q[k] \in Commands'
      <3>1. k - 1 \in DOMAIN Tail(q) /\ Tail(q)[k - 1] = q[k]
        BY <1>2, <2>1
      <3>. QED  BY <1>1, <3>1 DEF Commands
    <2>. QED  BY <2>1 DEF Commands, q
  <1>6. Single(q[1]) => q[1] \notin Commands'
    <2>1. ASSUME Single(q[1]), NEW k \in DOMAIN Tail(q), Tail(q)[k] = q[1] PROVE FALSE
      BY <1>2, <2>1 DEF Single, q
    <2>. QED  BY <1>1, <2>1 DEF Commands
  <1>7. \A d : Single(d) => Single(d)'
    BY <1>1, <1>2 DEF Single, q
  <1>. QED
    BY <1>1, <1>2, <1>3, <1>4, <1>5, <1>6, <1>7 DEF Take, q

-----------------------------------------------------------------------------
(* The reports of a task. *)

(* What ReportsAreInOrder says of one task. *)
Ordered(sent) ==
  \A k \in DOMAIN sent :
    /\ sent[k] \in FinalJob => k = Len(sent)
    /\ k = 1 => sent[k] \in {"submitted", "failed"}
    /\ k > 1 => sent[k] # "submitted"
    /\ \A l \in DOMAIN sent : sent[k] = "started" /\ sent[l] = "started" => k = l

Open(sent) == \A k \in DOMAIN sent : sent[k] \notin FinalJob

(* Reports that may follow those of a job in the given state. *)
Continues(news, state, started) ==
  /\ news \in Seq(Report)
  /\ \A k \in DOMAIN news :
       /\ news[k] # "submitted"
       /\ news[k] \in FinalJob => k = Len(news) /\ news[k] = state
       /\ news[k] = "started" => k = 1 /\ ~started
  /\ state \in FinalJob => news # <<>> /\ news[Len(news)] = state

LEMMA TwoReports ==
  ASSUME NEW a \in Report, NEW b \in Report
  PROVE  <<a>> \o <<b>> = <<a, b>>
  <1>. DEFINE q == <<a>> \o <<b>>
              p == <<a, b>>
  <1>1. /\ q \in Seq(Report) /\ Len(q) = 2 /\ q[1] = a /\ q[2] = b
        /\ p \in Seq(Report) /\ Len(p) = 2 /\ p[1] = a /\ p[2] = b
    OBVIOUS
  <1>. HIDE DEF q, p
  <1>2. \A i \in 1 .. 2 : q[i] = p[i]
    BY <1>1
  <1>3. q = p
    BY <1>1, <1>2, SeqEqual
  <1>. QED  BY <1>3 DEF q, p

LEMMA OneReport ==
  ASSUME NEW a \in Report
  PROVE  /\ <<>> \o <<a>> = <<a>> /\ <<a>> \o <<>> = <<a>> /\ <<>> \o <<>> = <<>>
         /\ <<a>> \in Seq(Report) /\ <<>> \in Seq(Report)
         /\ DOMAIN <<a>> = {1} /\ DOMAIN <<>> = {} /\ Len(<<a>>) = 1 /\ <<a>> # <<>>
  OBVIOUS

LEMMA OneContinues ==
  ASSUME NEW state, NEW started, NEW b \in Report \ {"submitted"},
         b \in FinalJob => b = state, state \in FinalJob => b = state,
         b = "started" => ~started
  PROVE  Continues(<<b>>, state, started)
  BY OneReport DEF Continues

LEMMA TwoContinue ==
  ASSUME NEW state, NEW started, NEW b \in Report \ {"submitted", "started"},
         b \in FinalJob => b = state, state \in FinalJob => b = state, ~started
  PROVE  Continues(<<"started", b>>, state, started)
  <1>1. /\ <<"started", b>> \in Seq(Report) /\ DOMAIN <<"started", b>> = {1, 2}
        /\ Len(<<"started", b>>) = 2 /\ <<"started", b>> # <<>>
        /\ <<"started", b>>[1] = "started" /\ <<"started", b>>[2] = b
    BY DEF Report
  <1>2. "started" \notin FinalJob
    BY DEF FinalJob
  <1>. QED  BY <1>1, <1>2 DEF Continues

(* What a poll tells continues what was told before. *)
LEMMA NewsContinues ==
  ASSUME TypeOK, NEW t \in Task, job[t] # "none"
  PROVE  /\ Continues(News(t), job[t], t \in start_reported)
         /\ \A k \in DOMAIN News(t) : News(t)[k] = "started" => t \in executed
  <1>. DEFINE started == t \in start_reported
              news == News(t)
              Told(b) == \/ news = <<b>> /\ t \notin executed \ start_reported
                         \/ news = <<"started", b>> /\ t \in executed \ start_reported
  <1>0. /\ job[t] \in {"waiting", "processing"} \cup FinalJob
        /\ "waiting" \notin FinalJob /\ "processing" \notin FinalJob
        /\ "running" \in Report \ (FinalJob \cup {"submitted", "started"})
        /\ FinalJob \subseteq Report \ {"submitted", "started"}
        /\ "started" \in Report /\ "started" \notin FinalJob
    BY DEF TypeOK, JobState, ActiveJob, FinalJob, Report
  <1>1. CASE job[t] = "waiting"
    <2>1. \/ news = <<>>
          \/ news = <<"started">> /\ t \in executed \ start_reported
      BY <1>1, OneReport, <1>0 DEF News
    <2>2. Continues(<<>>, job[t], started)
      BY <1>0, <1>1 DEF Continues
    <2>3. ~started => Continues(<<"started">>, job[t], started)
      BY <1>0, <1>1, OneContinues
    <2>4. Continues(news, job[t], started)
      BY <2>1, <2>2, <2>3
    <2>. QED  BY <2>1, <2>4, OneReport, <1>0
  <1>2. ASSUME NEW b \in Report \ {"submitted", "started"}, Told(b)
        PROVE  \A k \in DOMAIN news : news[k] = "started" => t \in executed
    <2>1. CASE news = <<b>>
      BY <1>2, <2>1
    <2>2. CASE t \in executed
      BY <2>2
    <2>. QED  BY <1>2, <2>1, <2>2
  <1>3. CASE job[t] = "processing"
    <2>1. Told("running")
      BY <1>3, OneReport, TwoReports, <1>0 DEF News
    <2>2. /\ Continues(<<"running">>, job[t], started)
          /\ ~started => Continues(<<"started", "running">>, job[t], started)
      BY <1>0, <1>3, OneContinues, TwoContinue
    <2>3. Continues(news, job[t], started)
      BY <2>1, <2>2
    <2>. QED  BY <1>0, <1>2, <2>1, <2>3
  <1>4. CASE job[t] \in FinalJob
    <2>1. Told(job[t])
      BY <1>4, OneReport, TwoReports, <1>0 DEF News
    <2>2. /\ Continues(<<job[t]>>, job[t], started)
          /\ ~started => Continues(<<"started", job[t]>>, job[t], started)
      BY <1>0, <1>4, OneContinues, TwoContinue
    <2>3. Continues(news, job[t], started)
      BY <2>1, <2>2
    <2>. QED  BY <1>0, <1>2, <1>4, <2>1, <2>3
  <1>. QED  BY <1>0, <1>1, <1>3, <1>4

(* Reports that follow keep the order. *)
LEMMA OrderIsContinued ==
  ASSUME NEW sent \in Seq(Report), sent # <<>>, sent[1] = "submitted", Ordered(sent),
         Open(sent), NEW news, NEW state, NEW started \in BOOLEAN,
         Continues(news, state, started),
         \A k \in DOMAIN sent : sent[k] = "started" => started
  PROVE  LET all == sent \o news IN
         /\ all \in Seq(Report) /\ all # <<>> /\ all[1] = "submitted" /\ Ordered(all)
         /\ state \in FinalJob => all[Len(all)] = state
         /\ state \notin FinalJob => Open(all)
         /\ \A k \in DOMAIN all : all[k] = "started" =>
              started \/ \E l \in DOMAIN news : news[l] = "started"
  <1>. DEFINE all == sent \o news
  <1>1. /\ all \in Seq(Report) /\ Len(all) = Len(sent) + Len(news) /\ Len(sent) > 0
        /\ Len(news) \in Nat /\ Len(sent) \in Nat
        /\ DOMAIN sent = 1..Len(sent) /\ DOMAIN news = 1..Len(news)
        /\ DOMAIN all = 1..Len(all)
        /\ \A k \in DOMAIN sent : k \in DOMAIN all /\ all[k] = sent[k]
        /\ \A k \in DOMAIN all : k \notin DOMAIN sent =>
             k - Len(sent) \in DOMAIN news /\ all[k] = news[k - Len(sent)]
        /\ \A k \in DOMAIN news : all[Len(sent) + k] = news[k]
    BY DEF Continues
  <1>. HIDE DEF all
  <1>2. all # <<>> /\ all[1] = "submitted"
    BY <1>1
  <1>3. ASSUME NEW k \in DOMAIN all, all[k] \in FinalJob PROVE k = Len(all)
    <2>1. k \notin DOMAIN sent
      BY <1>1, <1>3 DEF Open
    <2>2. k - Len(sent) \in DOMAIN news /\ news[k - Len(sent)] \in FinalJob
      BY <1>1, <1>3, <2>1
    <2>3. k - Len(sent) = Len(news)
      BY <2>2 DEF Continues
    <2>4. k \in Nat /\ Len(all) \in Nat
      BY <1>1
    <2>. QED  BY <1>1, <2>3, <2>4
  <1>4. \A k \in DOMAIN all : k > 1 => all[k] # "submitted"
    BY <1>1 DEF Continues, Ordered
  <1>5. ASSUME NEW k \in DOMAIN all, NEW l \in DOMAIN all,
               all[k] = "started", all[l] = "started"
        PROVE  k = l
    <2>1. ASSUME NEW i \in DOMAIN all, all[i] = "started"
          PROVE  i \in DOMAIN sent \/ (i = Len(sent) + 1 /\ ~started)
      <3>1. ASSUME i \notin DOMAIN sent PROVE i - Len(sent) = 1 /\ ~started
        BY <1>1, <2>1, <3>1 DEF Continues
      <3>. QED  BY <1>1, <3>1
    <2>2. k \in DOMAIN sent => sent[k] = "started" /\ started
      BY <1>1, <1>5
    <2>3. l \in DOMAIN sent => sent[l] = "started" /\ started
      BY <1>1, <1>5
    <2>. QED  BY <1>5, <2>1, <2>2, <2>3 DEF Ordered
  <1>6. Ordered(all)
    BY <1>2, <1>3, <1>4, <1>5 DEF Ordered
  <1>7. state \in FinalJob => all[Len(all)] = state
    <2>1. news # <<>> => Len(news) \in DOMAIN news
      BY <1>1 DEF Continues
    <2>. QED  BY <1>1, <2>1 DEF Continues
  <1>8. state \notin FinalJob => Open(all)
    BY <1>1 DEF Continues, Open
  <1>9. \A k \in DOMAIN all : all[k] = "started" =>
              started \/ \E l \in DOMAIN news : news[l] = "started"
    BY <1>1
  <1>. QED  BY <1>1, <1>2, <1>6, <1>7, <1>8, <1>9 DEF all

-----------------------------------------------------------------------------
(* What sending and taking a command does to the commands of each kind. *)

NewsKept ==
  \A r \in Task : /\ Announced(r)' <=> Announced(r)
                  /\ Single(Cmd("new", r)) => Single(Cmd("new", r))'
CancelsKept ==
  \A r \in Task : /\ CancelSent(r)' <=> CancelSent(r)
                  /\ Single(Cmd("cancel", r)) => Single(Cmd("cancel", r))'
AnswersKept ==
  \A r \in Task : /\ CancelFailed(r)' <=> CancelFailed(r)
                  /\ CancelAccepted(r)' <=> CancelAccepted(r)
StopKept == StopSent' <=> StopSent

ChannelKept == NewsKept /\ CancelsKept /\ AnswersKept /\ StopKept

LEMMA ChannelUnchanged == UNCHANGED monitor_receiver => ChannelKept
  BY DEF ChannelKept, NewsKept, CancelsKept, AnswersKept, StopKept, Announced, CancelSent,
         CancelFailed, CancelAccepted, StopSent, Single, Commands

LEMMA SentNew ==
  ASSUME TypeOK, NEW t \in Task, SendAll(<<Cmd("new", t)>>)
  PROVE  /\ CancelsKept /\ AnswersKept /\ StopKept
         /\ \A r \in Task :
              /\ Announced(r)' <=> Announced(r) \/ (r = t /\ running)
              /\ Single(Cmd("new", r)) /\ (r # t \/ ~Announced(r))
                   => Single(Cmd("new", r))'
  <1>. USE CommandTypes, CommandsDiffer, Sent
  <1>1. CancelsKept /\ AnswersKept /\ StopKept
    BY DEF CancelsKept, AnswersKept, StopKept, CancelSent, CancelFailed, CancelAccepted,
           StopSent
  <1>2. \A r \in Task :
              /\ Announced(r)' <=> Announced(r) \/ (r = t /\ running)
              /\ Single(Cmd("new", r)) /\ (r # t \/ ~Announced(r))
                   => Single(Cmd("new", r))'
    BY DEF Announced
  <1>. QED  BY <1>1, <1>2

LEMMA SentCancel ==
  ASSUME TypeOK, NEW t \in Task, SendAll(<<Cmd("cancel", t)>>)
  PROVE  /\ NewsKept /\ AnswersKept /\ StopKept
         /\ \A r \in Task :
              /\ CancelSent(r)' <=> CancelSent(r) \/ (r = t /\ running)
              /\ Single(Cmd("cancel", r)) /\ (r # t \/ ~CancelSent(r))
                   => Single(Cmd("cancel", r))'
  <1>. USE CommandTypes, CommandsDiffer, Sent
  <1>1. NewsKept /\ AnswersKept /\ StopKept
    BY DEF NewsKept, AnswersKept, StopKept, Announced, CancelFailed, CancelAccepted,
           StopSent
  <1>2. \A r \in Task :
              /\ CancelSent(r)' <=> CancelSent(r) \/ (r = t /\ running)
              /\ Single(Cmd("cancel", r)) /\ (r # t \/ ~CancelSent(r))
                   => Single(Cmd("cancel", r))'
    BY DEF CancelSent
  <1>. QED  BY <1>1, <1>2

LEMMA SentNewAndCancel ==
  ASSUME TypeOK, NEW t \in Task, SendAll(<<Cmd("new", t), Cmd("cancel", t)>>)
  PROVE  /\ AnswersKept /\ StopKept
         /\ \A r \in Task :
              /\ Announced(r)' <=> Announced(r) \/ (r = t /\ running)
              /\ CancelSent(r)' <=> CancelSent(r) \/ (r = t /\ running)
              /\ Single(Cmd("new", r)) /\ (r # t \/ ~Announced(r))
                   => Single(Cmd("new", r))'
              /\ Single(Cmd("cancel", r)) /\ (r # t \/ ~CancelSent(r))
                   => Single(Cmd("cancel", r))'
  <1>. USE CommandTypes, CommandsDiffer, SentBoth
  <1>1. AnswersKept /\ StopKept
    BY DEF AnswersKept, StopKept, CancelFailed, CancelAccepted, StopSent
  <1>2. \A r \in Task :
              /\ Announced(r)' <=> Announced(r) \/ (r = t /\ running)
              /\ Single(Cmd("new", r)) /\ (r # t \/ ~Announced(r))
                   => Single(Cmd("new", r))'
    BY DEF Announced
  <1>3. \A r \in Task :
              /\ CancelSent(r)' <=> CancelSent(r) \/ (r = t /\ running)
              /\ Single(Cmd("cancel", r)) /\ (r # t \/ ~CancelSent(r))
                   => Single(Cmd("cancel", r))'
    BY DEF CancelSent
  <1>. QED  BY <1>1, <1>2, <1>3

LEMMA SentStop ==
  ASSUME TypeOK, SendAll(<<Cmd("stop", NoTask)>>)
  PROVE  NewsKept /\ CancelsKept /\ AnswersKept
  BY CommandTypes, CommandsDiffer, Sent
     DEF NewsKept, CancelsKept, AnswersKept, Announced, CancelSent, CancelFailed,
         CancelAccepted

LEMMA SentAnswer ==
  ASSUME TypeOK, NEW t \in Task
  PROVE  /\ SendAll(<<Refusal(t)>>) \/ SendAll(<<Acceptance(t)>>)
              => NewsKept /\ CancelsKept /\ StopKept
         /\ SendAll(<<Refusal(t)>>) => \A r \in Task :
              /\ CancelFailed(r)' <=> CancelFailed(r) \/ (r = t /\ running)
              /\ CancelAccepted(r)' <=> CancelAccepted(r)
         /\ SendAll(<<Acceptance(t)>>) => \A r \in Task :
              /\ CancelFailed(r)' <=> CancelFailed(r)
              /\ CancelAccepted(r)' <=> CancelAccepted(r) \/ (r = t /\ running)
  <1>. USE CommandTypes, CommandsDiffer, Sent
  <1>1. SendAll(<<Refusal(t)>>) \/ SendAll(<<Acceptance(t)>>)
              => NewsKept /\ CancelsKept /\ StopKept
    BY DEF NewsKept, CancelsKept, StopKept, Announced, CancelSent, StopSent
  <1>2. SendAll(<<Refusal(t)>>) => \A r \in Task :
              /\ CancelFailed(r)' <=> CancelFailed(r) \/ (r = t /\ running)
              /\ CancelAccepted(r)' <=> CancelAccepted(r)
    BY DEF CancelFailed, CancelAccepted
  <1>3. SendAll(<<Acceptance(t)>>) => \A r \in Task :
              /\ CancelFailed(r)' <=> CancelFailed(r)
              /\ CancelAccepted(r)' <=> CancelAccepted(r) \/ (r = t /\ running)
    BY DEF CancelFailed, CancelAccepted
  <1>. QED  BY <1>1, <1>2, <1>3

LEMMA TakenNew ==
  ASSUME TypeOK, NEW t \in Task, Take("new", t)
  PROVE  /\ Announced(t) /\ (Single(Cmd("new", t)) => ~Announced(t)')
         /\ \A r \in Task \ {t} : Announced(r)' <=> Announced(r)
         /\ \A r \in Task : Single(Cmd("new", r)) => Single(Cmd("new", r))'
         /\ CancelsKept /\ AnswersKept /\ StopKept
  <1>1. PICK c \in Commands :
           /\ c = Cmd("new", t)
           /\ Commands' \subseteq Commands /\ Commands \subseteq Commands' \cup {c}
           /\ Single(c) => c \notin Commands'
           /\ \A d : Single(d) => Single(d)'
    BY Taken, CommandIsItsFields
  <1>2. CancelsKept /\ AnswersKept /\ StopKept
    BY <1>1, CommandsDiffer
       DEF CancelsKept, AnswersKept, StopKept, CancelSent, CancelFailed, CancelAccepted,
           StopSent
  <1>. QED  BY <1>1, <1>2, CommandsDiffer DEF Announced

LEMMA TakenCancel ==
  ASSUME TypeOK, NEW t \in Task, Take("cancel", t)
  PROVE  /\ CancelSent(t) /\ (Single(Cmd("cancel", t)) => ~CancelSent(t)')
         /\ \A r \in Task \ {t} : CancelSent(r)' <=> CancelSent(r)
         /\ \A r \in Task : Single(Cmd("cancel", r)) => Single(Cmd("cancel", r))'
         /\ NewsKept /\ AnswersKept /\ StopKept
  <1>1. PICK c \in Commands :
           /\ c = Cmd("cancel", t)
           /\ Commands' \subseteq Commands /\ Commands \subseteq Commands' \cup {c}
           /\ Single(c) => c \notin Commands'
           /\ \A d : Single(d) => Single(d)'
    BY Taken, CommandIsItsFields
  <1>2. NewsKept /\ AnswersKept /\ StopKept
    BY <1>1, CommandsDiffer
       DEF NewsKept, AnswersKept, StopKept, Announced, CancelFailed, CancelAccepted,
           StopSent
  <1>. QED  BY <1>1, <1>2, CommandsDiffer DEF CancelSent

LEMMA TakenAnswer ==
  ASSUME TypeOK, NEW t \in Task, Take("cancel_done", t)
  PROVE  LET ok == Head(monitor_receiver).ok IN
         /\ ok \in BOOLEAN /\ (ok => CancelAccepted(t)) /\ (~ok => CancelFailed(t))
         /\ \A r \in Task : /\ CancelFailed(r)' => CancelFailed(r)
                            /\ CancelAccepted(r)' => CancelAccepted(r)
                            /\ r # t \/ ok => (CancelFailed(r) => CancelFailed(r)')
         /\ NewsKept /\ CancelsKept /\ StopKept
  <1>. DEFINE ok == Head(monitor_receiver).ok
  <1>1. PICK c \in Commands :
           /\ ok \in BOOLEAN /\ (ok => c = Acceptance(t)) /\ (~ok => c = Refusal(t))
           /\ Commands' \subseteq Commands /\ Commands \subseteq Commands' \cup {c}
           /\ \A d : Single(d) => Single(d)'
    BY Taken, CommandIsItsFields
  <1>. HIDE DEF ok
  <1>2. c = Acceptance(t) \/ c = Refusal(t)
    BY <1>1
  <1>3. NewsKept /\ CancelsKept /\ StopKept
    BY <1>1, <1>2, CommandsDiffer
       DEF NewsKept, CancelsKept, StopKept, Announced, CancelSent, StopSent
  <1>4. (ok => CancelAccepted(t)) /\ (~ok => CancelFailed(t))
    BY <1>1 DEF CancelAccepted, CancelFailed
  <1>5. \A r \in Task : /\ CancelFailed(r)' => CancelFailed(r)
                        /\ CancelAccepted(r)' => CancelAccepted(r)
                        /\ r # t \/ ok => (CancelFailed(r) => CancelFailed(r)')
    BY <1>1, <1>2, CommandsDiffer DEF CancelFailed, CancelAccepted
  <1>. QED  BY <1>1, <1>3, <1>4, <1>5 DEF ok

LEMMA TakenStop ==
  ASSUME TypeOK, Take("stop", NoTask)
  PROVE  StopSent /\ NewsKept /\ CancelsKept /\ AnswersKept /\ (StopSent' => StopSent)
  <1>1. PICK c \in Commands :
           /\ c = Cmd("stop", NoTask)
           /\ Commands' \subseteq Commands /\ Commands \subseteq Commands' \cup {c}
           /\ \A d : Single(d) => Single(d)'
    BY Taken, CommandIsItsFields
  <1>. QED
    BY <1>1, CommandsDiffer
       DEF NewsKept, CancelsKept, AnswersKept, Announced, CancelSent, CancelFailed,
           CancelAccepted, StopSent

-----------------------------------------------------------------------------
(* The invariant. *)

(* A task is registered once, after the server has its job. *)
Registration ==
  \A t \in Task :
    /\ t \in Resumable => submission[t] \in {"none", "over"}
    /\ Announced(t) \/ t \in monitored_tasks => submission[t] = "over"
    /\ Announced(t) => t \notin monitored_tasks
    /\ Single(Cmd("new", t))
    /\ job[t] = "none" => /\ submission[t] \in {"none", "sending", "over"}
                          /\ ~Announced(t) /\ t \notin monitored_tasks \cup Resumable

(* What has been reported of a task, at each stage. *)
History ==
  \A t \in Task :
    /\ t \notin Resumable /\ submission[t] \in {"none", "sending", "accepted"}
         => reports[t] = <<>>
    /\ (\/ submission[t] = "reported" \/ Announced(t)
        \/ t \in Resumable /\ submission[t] = "none")
         => reports[t] = <<"submitted">>
    /\ t \in monitored_tasks => reports[t] # <<>> /\ reports[t][1] = "submitted"
    /\ t \in monitored_tasks \ to_delete => Open(reports[t])
    /\ t \in monitored_tasks =>
         \A k \in DOMAIN reports[t] : reports[t][k] = "started" => t \in start_reported
    /\ t \in to_delete => Ended(t)
    /\ Ordered(reports[t])
    /\ Reported(t, "submitted") => job[t] # "none" /\ (Ended(t) => job[t] \in FinalJob)

(* The monitor exits when it is told to; until then it watches what was     *)
(* registered.                                                              *)
Watched ==
  /\ StopSent \/ ~running => stopped
  /\ ~stopped => \A t \in Task :
       submission[t] = "over" =>
         Ended(t) \/ Announced(t) \/ t \in monitored_tasks \ to_delete

(* Nothing of a cancel is there before the launcher asks for it, or while   *)
(* the command is in the channel; an attempt the server accepted has ended  *)
(* the job.                                                                 *)
CancelSteps ==
  \A t \in Task :
    /\ t \in cancel_requested =>
         Reported(t, "submitted") /\ (t \in Resumable => submission[t] = "over")
    /\ CancelSent(t) => t \in cancel_requested
    /\ t \notin cancel_requested \/ CancelSent(t) =>
         /\ cancel[t] = "none" /\ attempts[t] = 0 /\ t \notin early_cancels
         /\ ~CancelAccepted(t) /\ ~CancelFailed(t)
    /\ Single(Cmd("cancel", t))
    /\ cancel[t] = "sent" \/ CancelAccepted(t) => job[t] \in FinalJob

(* CancelIsNotLost, by the kinds of commands. *)
CancelKept(t) ==
  \/ CancelSent(t)
  \/ t \in monitored_tasks /\ cancel[t] = "pending"
  \/ t \in monitored_tasks /\ cancel[t] = "inflight" /\ (attempts[t] > 0 \/ CancelFailed(t))
  \/ t \in early_cancels /\ (submission[t] = "reported" \/ Announced(t))

CancelsInProgress ==
  ~stopped => \A t \in cancel_requested : job[t] \in ActiveJob => CancelKept(t)

IqmInv == /\ TypeOK /\ Registration /\ History /\ Watched /\ CancelSteps
          /\ CancelsInProgress

-----------------------------------------------------------------------------
(* Types *)

LEMMA TypeInit == Init => TypeOK
  <1>. SUFFICES ASSUME Init PROVE TypeOK
    OBVIOUS
  <1>1. <<"submitted">> \in Seq(Report) /\ <<>> \in Seq(Report)
    BY OneReport DEF Report
  <1>2. reports \in [Task -> Seq(Report)]
    BY <1>1 DEF Init
  <1>3. job \in [Task -> JobState] /\ executed \subseteq Task
    BY IqmAssumption DEF Init
  <1>4. /\ attempts \in [Task -> Nat] /\ submission \in [Task -> SubmissionStep]
        /\ cancel \in [Task -> CancelState]
    BY DEF Init, SubmissionStep, CancelState
  <1>. QED
    <2>1. /\ monitored_tasks = {} /\ start_reported = {} /\ failing = {}
          /\ early_cancels = {} /\ due = {} /\ polled = NoTask /\ to_delete = {}
          /\ monitor_receiver = <<>> /\ running = TRUE
          /\ cancel_requested = {} /\ stopped = FALSE
      BY DEF Init
    <2>2. monitor_receiver \in Seq(Command)
      BY <2>1
    <2>. QED  BY <1>2, <1>3, <1>4, <2>1, <2>2 DEF TypeOK

(* Reports sent are reports. *)
LEMMA SentReports ==
  ASSUME TypeOK, NEW t \in Task, NEW news \in Seq(Report), SendReports(t, news)
  PROVE  /\ reports' \in [Task -> Seq(Report)]
         /\ \A r \in Task \ {t} : reports'[r] = reports[r]
         /\ \/ reports'[t] = reports[t] \o news
            \/ reports'[t] = reports[t] /\ news # <<>> /\ news[Len(news)] = "running"
  <1>. DEFINE added == IF news # <<>> /\ news[Len(news)] = "running"
                          /\ reports[t] # <<>> /\ reports[t][Len(reports[t])] = "running"
                       THEN <<>> ELSE news
  <1>1. reports' = [reports EXCEPT ![t] = @ \o added]
    BY DEF SendReports
  <1>2. reports[t] \in Seq(Report) /\ reports[t] \o <<>> = reports[t]
        /\ reports[t] \o news \in Seq(Report)
    BY DEF TypeOK
  <1>. HIDE DEF added
  <1>3. added = news \/ (added = <<>> /\ news # <<>> /\ news[Len(news)] = "running")
    BY DEF added
  <1>4. reports'[t] = reports[t] \o added /\ \A r \in Task \ {t} : reports'[r] = reports[r]
    BY <1>1 DEF TypeOK
  <1>5. reports' \in [Task -> Seq(Report)]
    BY <1>1, <1>2, <1>3 DEF TypeOK
  <1>. QED  BY <1>2, <1>3, <1>4, <1>5

LEMMA TypeLauncherCall ==
  ASSUME TypeOK, LauncherCall PROVE TypeOK'
  <1>. USE DEF TypeOK, SubmissionStep
  <1>1. ASSUME NEW t \in Task, SubmitTask(t) PROVE TypeOK'
    BY <1>1 DEF SubmitTask
  <1>2. ASSUME NEW t \in Task, CancelTask(t) PROVE TypeOK'
    <2>1. monitor_receiver' \in Seq(Command)
      BY <1>2, Sent, CommandTypes DEF CancelTask
    <2>. QED  BY <1>2, <2>1 DEF CancelTask
  <1>3. ASSUME NEW t \in Task, NEW cancelled \in BOOLEAN, ResumeTask(t, cancelled)
        PROVE  TypeOK'
    <2>1. Cmd("new", t) # Cmd("cancel", t)
      BY CommandsDiffer
    <2>2. monitor_receiver' \in Seq(Command)
      BY <1>3, <2>1, Sent, SentBoth, CommandTypes DEF ResumeTask
    <2>. QED  BY <1>3, <2>2 DEF ResumeTask
  <1>4. CASE Stop
    <2>1. monitor_receiver' \in Seq(Command)
      BY <1>4, Sent, CommandTypes DEF Stop
    <2>. QED  BY <1>4, <2>1 DEF Stop
  <1>. QED  BY <1>1, <1>2, <1>3, <1>4 DEF LauncherCall

LEMMA TypeSubmission ==
  ASSUME TypeOK, Submission PROVE TypeOK'
  <1>. USE DEF TypeOK, SubmissionStep
  <1>0. <<"failed">> \in Seq(Report) /\ <<"submitted">> \in Seq(Report)
    BY DEF Report, FinalJob
  <1>1. ASSUME NEW t \in Task, SubmissionFails(t) \/ ReportSubmitted(t) PROVE TypeOK'
    <2>1. reports' \in [Task -> Seq(Report)]
      BY <1>0, <1>1, SentReports DEF SubmissionFails, ReportSubmitted
    <2>. QED  BY <1>1, <2>1 DEF SubmissionFails, ReportSubmitted
  <1>2. ASSUME NEW t \in Task, RegisterTask(t) PROVE TypeOK'
    <2>1. monitor_receiver' \in Seq(Command)
      BY <1>2, Sent, CommandTypes DEF RegisterTask
    <2>. QED  BY <1>2, <2>1 DEF RegisterTask
  <1>. QED  BY <1>1, <1>2 DEF Submission

(* One more attempt of a task. *)
LEMMA Spawned ==
  ASSUME TypeOK, NEW t \in Task, SpawnCancelAttempt(t)
  PROVE  /\ attempts' \in [Task -> Nat] /\ attempts'[t] > 0
         /\ \A r \in Task \ {t} : attempts'[r] = attempts[r]
  <1>1. attempts[t] \in Nat /\ attempts \in [Task -> Nat]
    BY DEF TypeOK
  <1>2. attempts[t] + 1 \in Nat /\ attempts[t] + 1 > 0
    BY <1>1
  <1>. QED  BY <1>1, <1>2 DEF SpawnCancelAttempt

LEMMA TypeMonitorCommand ==
  ASSUME TypeOK, MonitorCommand PROVE TypeOK'
  <1>. USE DEF TypeOK, CancelState
  <1>0. ASSUME NEW op, NEW t, Take(op, t)
        PROVE  monitor_receiver' \in Seq(Command) /\ due = {} /\ to_delete = {}
    BY <1>0, Taken DEF Take, Idle
  <1>1. ASSUME NEW t \in Task, NewTask(t) PROVE TypeOK'
    BY <1>0, <1>1 DEF NewTask
  <1>2. ASSUME NEW t \in Task, Cancel(t) PROVE TypeOK'
    <2>1. attempts' \in [Task -> Nat]
      BY <1>2, Spawned DEF Cancel
    <2>2. cancel' \in [Task -> CancelState]
      BY <1>2 DEF Cancel
    <2>. QED  BY <1>0, <1>2, <2>1, <2>2 DEF Cancel
  <1>3. ASSUME NEW t \in Task, CancelDone(t) PROVE TypeOK'
    BY <1>0, <1>3 DEF CancelDone
  <1>4. CASE StopMonitor
    BY <1>0, <1>4 DEF StopMonitor
  <1>. QED  BY <1>1, <1>2, <1>3, <1>4 DEF MonitorCommand

LEMMA TypeServer ==
  ASSUME TypeOK, Server PROVE TypeOK'
  <1>. USE DEF TypeOK, JobState, ActiveJob, FinalJob, SubmissionStep
  <1>1. ASSUME NEW t \in Task, ServerAccepts(t) PROVE TypeOK'
    BY <1>1 DEF ServerAccepts
  <1>2. ASSUME NEW t \in Task, JobStarts(t) PROVE TypeOK'
    BY <1>2 DEF JobStarts
  <1>3. ASSUME NEW t \in Task, NEW state \in FinalJob, JobEnds(t, state) PROVE TypeOK'
    BY <1>3 DEF JobEnds
  <1>4. ASSUME NEW t \in Task, NEW ok \in BOOLEAN, CancelAttempted(t, ok) PROVE TypeOK'
    <2>1. [op |-> "cancel_done", of |-> t, ok |-> ok] \in Command
      BY DEF Command
    <2>2. monitor_receiver' \in Seq(Command)
      BY <1>4, <2>1, Sent DEF CancelAttempted
    <2>3. attempts' \in [Task -> Nat]
      <3>1. attempts[t] \in Nat /\ attempts[t] > 0 => attempts[t] - 1 \in Nat
        OBVIOUS
      <3>. QED  BY <1>4, <3>1 DEF CancelAttempted
    <2>4. job' \in [Task -> JobState]
      BY <1>4 DEF CancelAttempted
    <2>. QED  BY <1>4, <2>2, <2>3, <2>4 DEF CancelAttempted
  <1>. QED  BY <1>1, <1>2, <1>3, <1>4 DEF Server

LEMMA TypePoll ==
  ASSUME TypeOK, \A t \in monitored_tasks : job[t] # "none",
         NEW t \in Task, Poll(t)
  PROVE  TypeOK'
  <1>. USE DEF TypeOK
  <1>1. CASE BeginPoll(t)
    <2>1. attempts' \in [Task -> Nat]
      BY <1>1, Spawned DEF BeginPoll
    <2>2. cancel' \in [Task -> CancelState]
      BY <1>1 DEF BeginPoll, CancelState
    <2>. QED  BY <1>1, <2>1, <2>2 DEF BeginPoll
  <1>2. CASE PollAnswered(t)
    <2>1. t \in due /\ t \in monitored_tasks
      BY <1>2, IqmAssumption DEF PollAnswered
    <2>2. News(t) \in Seq(Report)
      BY <2>1, NewsContinues DEF Continues
    <2>3. reports' \in [Task -> Seq(Report)]
      BY <1>2, <2>2, SentReports DEF PollAnswered
    <2>. QED  BY <1>2, <2>1, <2>3 DEF PollAnswered
  <1>3. CASE PollFails(t)
    <2>1. t \in due /\ t \in monitored_tasks
      BY <1>3, IqmAssumption DEF PollFails
    <2>. QED  BY <1>3, <2>1 DEF PollFails
  <1>. QED  BY <1>1, <1>2, <1>3 DEF Poll

LEMMA TypeStep ==
  ASSUME TypeOK, \A t \in monitored_tasks : job[t] # "none", [Next]_vars
  PROVE  TypeOK'
  <1>1. ASSUME NEW tasks \in SUBSET monitored_tasks, Tick(tasks) PROVE TypeOK'
    BY <1>1 DEF Tick, Idle, TypeOK
  <1>2. CASE EndTick
    BY <1>2 DEF EndTick, TypeOK, CancelState
  <1>3. CASE UNCHANGED vars
    BY <1>3 DEF vars, TypeOK
  <1>. QED
    BY <1>1, <1>2, <1>3, TypeLauncherCall, TypeSubmission, TypeMonitorCommand, TypeServer,
       TypePoll DEF Next

-----------------------------------------------------------------------------
(* What the steps keep. *)

(* Jobs only come closer to their end. *)
JobsGoOn ==
  \A t \in Task : /\ job'[t] = "none" <=> job[t] = "none"
                  /\ job[t] \in FinalJob => job'[t] \in FinalJob
                  /\ job'[t] \in ActiveJob => job[t] \in ActiveJob

LEMMA JobsUnchanged == UNCHANGED job => JobsGoOn
  BY DEF JobsGoOn

LEMMA StartsAndEnds ==
  ASSUME TypeOK, NEW t \in Task,
         JobStarts(t) \/ \E state \in FinalJob : JobEnds(t, state)
  PROVE  JobsGoOn
  BY DEF JobStarts, JobEnds, JobsGoOn, TypeOK, ActiveJob, FinalJob

LEMMA AttemptGoesOn ==
  ASSUME TypeOK, NEW t \in Task, NEW ok, CancelAttempted(t, ok)
  PROVE  JobsGoOn
  <1>1. \/ UNCHANGED job
        \/ job[t] \in ActiveJob /\ job' = [job EXCEPT ![t] = "cancelled"]
    BY DEF CancelAttempted
  <1>. QED  BY <1>1 DEF JobsGoOn, TypeOK, ActiveJob, FinalJob

LEMMA RegistrationSame ==
  ASSUME Registration, NewsKept, JobsGoOn, UNCHANGED submission,
         monitored_tasks' \subseteq monitored_tasks
  PROVE  Registration'
  BY DEF Registration, NewsKept, JobsGoOn

LEMMA HistorySame ==
  ASSUME History, NewsKept, JobsGoOn, UNCHANGED <<submission, reports, monitored_tasks,
                                                  to_delete, start_reported>>
  PROVE  History'
  BY DEF History, NewsKept, JobsGoOn, Reported, Ended

LEMMA WatchedSame ==
  ASSUME Watched, NewsKept, StopKept, UNCHANGED <<submission, reports, monitored_tasks,
                                                  to_delete, running, stopped>>
  PROVE  Watched'
  BY DEF Watched, NewsKept, StopKept, Ended

LEMMA CancelStepsSame ==
  ASSUME CancelSteps, CancelsKept, AnswersKept, JobsGoOn,
         UNCHANGED <<submission, reports, cancel_requested, cancel, attempts, early_cancels>>
  PROVE  CancelSteps'
  BY DEF CancelSteps, CancelsKept, AnswersKept, JobsGoOn, Reported

LEMMA CancelsInProgressSame ==
  ASSUME CancelsInProgress, CancelsKept, AnswersKept, NewsKept, JobsGoOn, TypeOK,
         UNCHANGED <<submission, cancel_requested, cancel, attempts, early_cancels,
                     monitored_tasks, stopped>>
  PROVE  CancelsInProgress'
  BY DEF CancelsInProgress, CancelKept, CancelsKept, AnswersKept, NewsKept, JobsGoOn, TypeOK

(* Steps that change nothing the invariant is about.                        *)
LEMMA NothingConcerned ==
  ASSUME IqmInv, JobsGoOn, TypeOK',
         UNCHANGED <<submission, reports, monitored_tasks, to_delete, start_reported,
                     running, stopped, cancel_requested, cancel, attempts, early_cancels,
                     monitor_receiver>>
  PROVE  IqmInv'
  <1>1. NewsKept /\ CancelsKept /\ AnswersKept /\ StopKept
    BY ChannelUnchanged DEF ChannelKept
  <1>. QED
    BY <1>1, RegistrationSame, HistorySame, WatchedSame, CancelStepsSame,
       CancelsInProgressSame DEF IqmInv

-----------------------------------------------------------------------------
(* The steps, one by one. *)

LEMMA SubmitKeeps ==
  ASSUME IqmInv, TypeOK', NEW t \in Task, SubmitTask(t) PROVE IqmInv'
  <1>. USE DEF IqmInv
  <1>0. /\ NewsKept /\ CancelsKept /\ AnswersKept /\ StopKept /\ JobsGoOn
        /\ submission[t] = "none" /\ t \notin Resumable
        /\ \A r \in Task : submission'[r] = IF r = t THEN "sending" ELSE submission[r]
        /\ UNCHANGED <<job, reports, monitored_tasks, to_delete, start_reported, running,
                       stopped, cancel_requested, cancel, attempts, early_cancels>>
    BY ChannelUnchanged, JobsUnchanged DEF ChannelKept, SubmitTask, TypeOK
  <1>1. Registration'
    BY <1>0 DEF Registration, NewsKept
  <1>2. History'
    BY <1>0 DEF History, NewsKept, Reported, Ended
  <1>3. Watched'
    BY <1>0 DEF Watched, NewsKept, StopKept, Ended
  <1>4. CancelSteps'
    BY <1>0 DEF CancelSteps, CancelsKept, AnswersKept, Reported
  <1>5. CancelsInProgress'
    BY <1>0 DEF CancelsInProgress, CancelKept, CancelsKept, AnswersKept, NewsKept, TypeOK
  <1>. QED  BY <1>1, <1>2, <1>3, <1>4, <1>5

LEMMA ResumeKeeps ==
  ASSUME IqmInv, TypeOK', NEW t \in Task, NEW cancelled \in BOOLEAN,
         ResumeTask(t, cancelled)
  PROVE  IqmInv'
  <1>. USE DEF IqmInv
  <1>0. /\ submission[t] = "none" /\ t \in Resumable
        /\ ~stopped /\ running
        /\ \A r \in Task : submission'[r] = IF r = t THEN "over" ELSE submission[r]
        /\ cancel_requested' = IF cancelled THEN cancel_requested \cup {t}
                               ELSE cancel_requested
        /\ UNCHANGED <<job, reports, monitored_tasks, to_delete, start_reported, running,
                       stopped, cancel, attempts, early_cancels>>
        /\ ~Announced(t) /\ t \notin cancel_requested /\ ~CancelSent(t)
        /\ reports[t] = <<"submitted">>
    BY DEF ResumeTask, TypeOK, Watched, Registration, CancelSteps, History
  <1>1. /\ AnswersKept /\ StopKept
        /\ \A r \in Task :
              /\ Announced(r)' <=> Announced(r) \/ r = t
              /\ CancelSent(r)' <=> CancelSent(r) \/ (r = t /\ cancelled)
        /\ \A r \in Task :
              /\ Single(Cmd("new", r)) /\ (r # t \/ ~Announced(r))
                   => Single(Cmd("new", r))'
              /\ Single(Cmd("cancel", r)) /\ (r # t \/ ~CancelSent(r))
                   => Single(Cmd("cancel", r))'
    <2>1. CASE cancelled
      BY <1>0, <2>1, SentNewAndCancel DEF ResumeTask
    <2>2. CASE ~cancelled
      BY <1>0, <2>2, SentNew DEF ResumeTask, CancelsKept
    <2>. QED  BY <2>1, <2>2
  <1>2. Registration'
    BY <1>0, <1>1 DEF Registration
  <1>3. Reported(t, "submitted") /\ ~Ended(t)
    BY <1>0 DEF Reported, Ended, FinalJob
  <1>4. History'
    BY <1>0, <1>1, <1>3 DEF History, Reported, Ended
  <1>5. Watched'
    BY <1>0, <1>1 DEF Watched, StopKept, Ended
  <1>6. CancelSteps'
    BY <1>0, <1>1, <1>3 DEF CancelSteps, AnswersKept, Reported
  <1>7. CancelsInProgress'
    BY <1>0, <1>1 DEF CancelsInProgress, CancelKept, AnswersKept, TypeOK
  <1>. QED  BY <1>2, <1>4, <1>5, <1>6, <1>7

LEMMA CancelTaskKeeps ==
  ASSUME IqmInv, TypeOK', NEW t \in Task, CancelTask(t) PROVE IqmInv'
  <1>. USE DEF IqmInv
  <1>0. /\ ~stopped /\ running /\ t \notin cancel_requested /\ ~CancelSent(t)
        /\ Reported(t, "submitted") /\ (t \in Resumable => submission[t] = "over")
        /\ cancel_requested' = cancel_requested \cup {t}
        /\ UNCHANGED <<job, submission, reports, monitored_tasks, to_delete, start_reported,
                       running, stopped, cancel, attempts, early_cancels>>
    BY DEF CancelTask, CancelSteps, Watched
  <1>1. /\ NewsKept /\ AnswersKept /\ StopKept /\ JobsGoOn
        /\ \A r \in Task :
              /\ CancelSent(r)' <=> CancelSent(r) \/ r = t
              /\ Single(Cmd("cancel", r)) => Single(Cmd("cancel", r))'
    BY <1>0, SentCancel, JobsUnchanged DEF CancelTask
  <1>2. Registration' /\ History' /\ Watched'
    BY <1>0, <1>1, RegistrationSame, HistorySame, WatchedSame
  <1>3. CancelSteps'
    BY <1>0, <1>1 DEF CancelSteps, AnswersKept, Reported
  <1>4. CancelsInProgress'
    BY <1>0, <1>1 DEF CancelsInProgress, CancelKept, AnswersKept, NewsKept, TypeOK
  <1>. QED  BY <1>2, <1>3, <1>4

LEMMA StopKeeps ==
  ASSUME IqmInv, TypeOK', Stop PROVE IqmInv'
  <1>. USE DEF IqmInv
  <1>0. /\ stopped'
        /\ UNCHANGED <<job, submission, reports, monitored_tasks, to_delete, start_reported,
                       running, cancel_requested, cancel, attempts, early_cancels>>
    BY DEF Stop
  <1>1. NewsKept /\ CancelsKept /\ AnswersKept /\ JobsGoOn
    BY <1>0, SentStop, JobsUnchanged DEF Stop
  <1>2. Registration' /\ History' /\ CancelSteps'
    BY <1>0, <1>1, RegistrationSame, HistorySame, CancelStepsSame
  <1>3. Watched' /\ CancelsInProgress'
    BY <1>0 DEF Watched, CancelsInProgress
  <1>. QED  BY <1>2, <1>3

(* Nothing is known of a task whose submission the server has not answered. *)
LEMMA NotReported ==
  ASSUME IqmInv, NEW t \in Task, submission[t] \in {"sending", "accepted"}
  PROVE  /\ t \notin Resumable /\ reports[t] = <<>> /\ ~Announced(t)
         /\ t \notin monitored_tasks /\ ~Reported(t, "submitted")
         /\ t \notin cancel_requested /\ ~CancelSent(t) /\ ~CancelAccepted(t)
         /\ cancel[t] = "none"
  <1>1. /\ t \notin Resumable /\ reports[t] = <<>> /\ ~Announced(t)
        /\ t \notin monitored_tasks
    BY DEF IqmInv, Registration, History
  <1>2. ~Reported(t, "submitted")
    BY <1>1 DEF Reported
  <1>. QED  BY <1>1, <1>2 DEF IqmInv, CancelSteps

LEMMA AcceptKeeps ==
  ASSUME IqmInv, TypeOK', NEW t \in Task, ServerAccepts(t) PROVE IqmInv'
  <1>. USE DEF IqmInv
  <1>0. /\ NewsKept /\ CancelsKept /\ AnswersKept /\ StopKept
        /\ submission[t] = "sending"
        /\ \A r \in Task : submission'[r] = IF r = t THEN "accepted" ELSE submission[r]
        /\ \A r \in Task : job'[r] = IF r = t THEN "waiting" ELSE job[r]
        /\ UNCHANGED <<reports, monitored_tasks, to_delete, start_reported, running,
                       stopped, cancel_requested, cancel, attempts, early_cancels>>
    BY ChannelUnchanged DEF ChannelKept, ServerAccepts, TypeOK
  <1>1. Registration'
    BY <1>0, NotReported DEF Registration, NewsKept
  <1>2. History'
    BY <1>0, NotReported DEF History, NewsKept, Reported, Ended
  <1>3. Watched'
    BY <1>0 DEF Watched, NewsKept, StopKept, Ended
  <1>4. CancelSteps'
    BY <1>0, NotReported DEF CancelSteps, CancelsKept, AnswersKept, Reported
  <1>5. CancelsInProgress'
    BY <1>0, NotReported
       DEF CancelsInProgress, CancelKept, CancelsKept, AnswersKept, NewsKept, TypeOK
  <1>. QED  BY <1>1, <1>2, <1>3, <1>4, <1>5

(* The first report of a task. *)
LEMMA FirstReport ==
  ASSUME TypeOK, NEW t \in Task, reports[t] = <<>>, NEW report \in Report,
         SendReports(t, <<report>>)
  PROVE  \A r \in Task : reports'[r] = IF r = t THEN <<report>> ELSE reports[r]
  <1>1. <<report>> \in Seq(Report) /\ <<>> \o <<report>> = <<report>>
    BY OneReport
  <1>2. reports'[t] = reports[t] \o (IF <<report>> # <<>> /\ <<report>>[Len(<<report>>)] = "running"
                                        /\ reports[t] # <<>> /\ reports[t][Len(reports[t])] = "running"
                                     THEN <<>> ELSE <<report>>)
    BY DEF SendReports, TypeOK
  <1>3. \A r \in Task \ {t} : reports'[r] = reports[r]
    BY <1>1, SentReports
  <1>. QED  BY <1>1, <1>2, <1>3

LEMMA FailKeeps ==
  ASSUME IqmInv, TypeOK', NEW t \in Task, SubmissionFails(t) PROVE IqmInv'
  <1>. USE DEF IqmInv
  <1>0. /\ NewsKept /\ CancelsKept /\ AnswersKept /\ StopKept
        /\ submission[t] \in {"sending", "accepted"}
        /\ \A r \in Task : submission'[r] = IF r = t THEN "over" ELSE submission[r]
        /\ UNCHANGED <<job, monitored_tasks, to_delete, start_reported, running,
                       stopped, cancel_requested, cancel, attempts, early_cancels>>
    BY ChannelUnchanged DEF ChannelKept, SubmissionFails, TypeOK
  <1>1. \A r \in Task : reports'[r] = IF r = t THEN <<"failed">> ELSE reports[r]
    BY <1>0, NotReported, FirstReport DEF SubmissionFails, Report, FinalJob
  <1>2. Registration'
    BY <1>0, NotReported DEF Registration, NewsKept
  <1>3. Ended(t)' /\ ~Reported(t, "submitted")' /\ Ordered(reports'[t])
    <2>1. /\ reports'[t] # <<>> /\ Len(reports'[t]) = 1 /\ DOMAIN reports'[t] = {1}
          /\ reports'[t][1] = "failed"
      BY <1>1
    <2>2. Ordered(reports'[t])
      BY <2>1 DEF Ordered
    <2>. QED  BY <2>1, <2>2 DEF Ended, Reported, FinalJob
  <1>4. \A r \in Task \ {t} : /\ Ended(r)' <=> Ended(r)
                              /\ Reported(r, "submitted")' <=> Reported(r, "submitted")
    BY <1>1 DEF Ended, Reported
  <1>5. History'
    BY <1>0, <1>1, <1>3, <1>4, NotReported DEF History, NewsKept, TypeOK
  <1>6. Watched'
    BY <1>0, <1>3, <1>4 DEF Watched, NewsKept, StopKept
  <1>7. CancelSteps'
    BY <1>0, <1>4, NotReported DEF CancelSteps, CancelsKept, AnswersKept
  <1>8. CancelsInProgress'
    BY <1>0, NotReported
       DEF CancelsInProgress, CancelKept, CancelsKept, AnswersKept, NewsKept, TypeOK
  <1>. QED  BY <1>2, <1>5, <1>6, <1>7, <1>8

LEMMA ReportSubmittedKeeps ==
  ASSUME IqmInv, TypeOK', NEW t \in Task, ReportSubmitted(t) PROVE IqmInv'
  <1>. USE DEF IqmInv
  <1>0. /\ NewsKept /\ CancelsKept /\ AnswersKept /\ StopKept
        /\ submission[t] = "accepted"
        /\ \A r \in Task : submission'[r] = IF r = t THEN "reported" ELSE submission[r]
        /\ UNCHANGED <<job, monitored_tasks, to_delete, start_reported, running,
                       stopped, cancel_requested, cancel, attempts, early_cancels>>
    BY ChannelUnchanged DEF ChannelKept, ReportSubmitted, TypeOK
  <1>1. \A r \in Task : reports'[r] = IF r = t THEN <<"submitted">> ELSE reports[r]
    BY <1>0, NotReported, FirstReport DEF ReportSubmitted, Report
  <1>2. Registration'
    BY <1>0, NotReported DEF Registration, NewsKept
  <1>3. ~Ended(t)' /\ job[t] # "none" /\ Ordered(reports'[t])
    BY <1>0, <1>1 DEF Ended, FinalJob, Ordered, Registration
  <1>4. \A r \in Task \ {t} : /\ Ended(r)' <=> Ended(r)
                              /\ Reported(r, "submitted")' <=> Reported(r, "submitted")
    BY <1>1 DEF Ended, Reported
  <1>5. History'
    BY <1>0, <1>1, <1>3, <1>4, NotReported DEF History, NewsKept, TypeOK
  <1>6. Watched'
    BY <1>0, <1>3, <1>4 DEF Watched, NewsKept, StopKept
  <1>7. CancelSteps'
    BY <1>0, <1>4, NotReported DEF CancelSteps, CancelsKept, AnswersKept
  <1>8. CancelsInProgress'
    BY <1>0, NotReported
       DEF CancelsInProgress, CancelKept, CancelsKept, AnswersKept, NewsKept, TypeOK
  <1>. QED  BY <1>2, <1>5, <1>6, <1>7, <1>8

LEMMA RegisterKeeps ==
  ASSUME IqmInv, TypeOK', NEW t \in Task, RegisterTask(t) PROVE IqmInv'
  <1>. USE DEF IqmInv
  <1>0. /\ CancelsKept /\ AnswersKept /\ StopKept /\ submission[t] = "reported"
        /\ \A r \in Task : submission'[r] = IF r = t THEN "over" ELSE submission[r]
        /\ UNCHANGED <<job, reports, monitored_tasks, to_delete, start_reported, running,
                       stopped, cancel_requested, cancel, attempts, early_cancels>>
        /\ \A r \in Task :
              /\ Announced(r)' <=> Announced(r) \/ (r = t /\ running)
              /\ Single(Cmd("new", r)) /\ (r # t \/ ~Announced(r))
                   => Single(Cmd("new", r))'
    BY SentNew DEF RegisterTask, TypeOK
  <1>1. ~Announced(t) /\ t \notin monitored_tasks /\ job[t] # "none" /\ t \notin Resumable
    BY <1>0 DEF Registration
  <1>2. Registration'
    BY <1>0, <1>1 DEF Registration
  <1>3. History'
    BY <1>0, <1>1 DEF History, Reported, Ended
  <1>4. Watched'
    BY <1>0 DEF Watched, StopKept, Ended
  <1>5. CancelSteps'
    BY <1>0, <1>1 DEF CancelSteps, CancelsKept, AnswersKept, Reported
  <1>6. ~stopped => running
    BY DEF Watched
  <1>7. CancelsInProgress'
    BY <1>0, <1>6 DEF CancelsInProgress, CancelKept, CancelsKept, AnswersKept, TypeOK
  <1>. QED  BY <1>2, <1>3, <1>4, <1>5, <1>7

LEMMA AttemptKeeps ==
  ASSUME IqmInv, TypeOK', NEW t \in Task, NEW ok \in BOOLEAN, CancelAttempted(t, ok)
  PROVE  IqmInv'
  <1>. USE DEF IqmInv
  <1>0. /\ attempts[t] > 0 /\ attempts[t] \in Nat
        /\ \A r \in Task \ {t} : attempts'[r] = attempts[r]
        /\ UNCHANGED <<submission, reports, monitored_tasks, to_delete, start_reported,
                       running, stopped, cancel_requested, cancel, early_cancels>>
    BY DEF CancelAttempted, TypeOK
  <1>1. /\ t \in cancel_requested /\ ~CancelSent(t)
        /\ job[t] # "none"
    BY <1>0 DEF CancelSteps, History
  <1>2. JobsGoOn /\ (ok => job'[t] \in FinalJob)
    BY <1>1, AttemptGoesOn DEF CancelAttempted, TypeOK, JobState, ActiveJob, FinalJob
  <1>3. /\ NewsKept /\ CancelsKept /\ StopKept
        /\ \A r \in Task :
              /\ CancelFailed(r)' <=> CancelFailed(r) \/ (r = t /\ ~ok /\ running)
              /\ CancelAccepted(r)' <=> CancelAccepted(r) \/ (r = t /\ ok /\ running)
    <2>1. CASE ok = TRUE
      <3>1. SendAll(<<Acceptance(t)>>)
        BY <2>1 DEF CancelAttempted, Acceptance
      <3>. QED  BY <2>1, <3>1, SentAnswer
    <2>2. CASE ok = FALSE
      <3>1. SendAll(<<Refusal(t)>>)
        BY <2>2 DEF CancelAttempted, Refusal
      <3>. QED  BY <2>2, <3>1, SentAnswer
    <2>. QED  BY <2>1, <2>2
  <1>4. Registration' /\ History' /\ Watched'
    BY <1>0, <1>2, <1>3, RegistrationSame, HistorySame, WatchedSame
  <1>5. CancelSteps'
    BY <1>0, <1>1, <1>2, <1>3 DEF CancelSteps, CancelsKept, JobsGoOn, Reported
  <1>6. CancelsInProgress'
    <2>1. ASSUME ~stopped, NEW r \in cancel_requested, job'[r] \in ActiveJob,
                 CancelKept(r)
          PROVE  CancelKept(r)'
      <3>1. r = t => ok = FALSE
        BY <1>2, <2>1 DEF ActiveJob, FinalJob
      <3>2. running
        BY <2>1 DEF Watched
      <3>. QED
        BY <1>0, <1>3, <2>1, <3>1, <3>2 DEF CancelKept, CancelsKept, NewsKept, TypeOK
    <2>. QED  BY <1>0, <1>2, <2>1 DEF CancelsInProgress, JobsGoOn, TypeOK
  <1>. QED  BY <1>4, <1>5, <1>6

LEMMA NewTaskKeeps ==
  ASSUME IqmInv, TypeOK', NEW t \in Task, NewTask(t) PROVE IqmInv'
  <1>. USE DEF IqmInv
  <1>0. /\ CancelsKept /\ AnswersKept /\ StopKept /\ Announced(t)
        /\ \A r \in Task : Single(Cmd("new", r)) => Single(Cmd("new", r))'
        /\ \A r \in Task \ {t} : Announced(r)' <=> Announced(r)
    BY TakenNew DEF NewTask
  <1>1. /\ ~Announced(t)' /\ t \notin monitored_tasks /\ submission[t] = "over"
        /\ job[t] # "none" /\ reports[t] = <<"submitted">>
    <2>1. Announced(t) /\ Single(Cmd("new", t)) /\ Take("new", t)
      BY <1>0 DEF NewTask, Registration
    <2>2. ~Announced(t)'
      BY <2>1, TakenNew
    <2>3. t \notin monitored_tasks /\ submission[t] = "over" /\ job[t] # "none"
      BY <2>1 DEF Registration
    <2>4. reports[t] = <<"submitted">>
      BY <2>1 DEF History
    <2>. QED  BY <2>2, <2>3, <2>4
  <1>2. /\ monitored_tasks' = monitored_tasks \cup {t}
        /\ early_cancels' = early_cancels \ {t}
        /\ \A r \in Task : cancel'[r] = IF r # t THEN cancel[r]
                                        ELSE IF t \in early_cancels THEN "pending" ELSE "none"
        /\ to_delete = {}
        /\ UNCHANGED <<job, submission, reports, to_delete, start_reported, running,
                       stopped, cancel_requested, attempts>>
    BY <1>1 DEF NewTask, Take, Idle, TypeOK
  <1>3. Registration'
    BY <1>0, <1>1, <1>2 DEF Registration
  <1>4. /\ Open(reports[t]) /\ reports[t] # <<>> /\ reports[t][1] = "submitted"
        /\ \A k \in DOMAIN reports[t] : reports[t][k] # "started"
    BY <1>1 DEF Open, FinalJob
  <1>5. History'
    BY <1>0, <1>1, <1>2, <1>4 DEF History, Reported, Ended
  <1>6. Watched'
    BY <1>0, <1>1, <1>2 DEF Watched, StopKept, Ended
  <1>7. CancelSteps'
    BY <1>0, <1>1, <1>2 DEF CancelSteps, CancelsKept, AnswersKept, Reported
  <1>8. CancelsInProgress'
    BY <1>0, <1>1, <1>2 DEF CancelsInProgress, CancelKept, CancelsKept, AnswersKept, TypeOK
  <1>. QED  BY <1>3, <1>5, <1>6, <1>7, <1>8

LEMMA CancelKeeps ==
  ASSUME IqmInv, TypeOK', NEW t \in Task, Cancel(t) PROVE IqmInv'
  <1>. USE DEF IqmInv
  <1>0. /\ NewsKept /\ AnswersKept /\ StopKept /\ CancelSent(t)
        /\ \A r \in Task : Single(Cmd("cancel", r)) => Single(Cmd("cancel", r))'
        /\ \A r \in Task \ {t} : CancelSent(r)' <=> CancelSent(r)
        /\ (Single(Cmd("cancel", t)) => ~CancelSent(t)')
    BY TakenCancel DEF Cancel
  <1>1. /\ t \in cancel_requested /\ cancel[t] = "none" /\ attempts[t] = 0
        /\ ~CancelSent(t)' /\ Reported(t, "submitted")
        /\ ~CancelAccepted(t) /\ ~CancelFailed(t)
        /\ (t \in Resumable => submission[t] = "over")
    BY <1>0 DEF CancelSteps
  <1>2. /\ SpawnCancelAttempt(t) /\ to_delete = {}
        /\ \/ /\ t \in monitored_tasks
              /\ \A r \in Task : cancel'[r] = IF r = t THEN "inflight" ELSE cancel[r]
              /\ UNCHANGED early_cancels
           \/ /\ t \notin monitored_tasks
              /\ early_cancels' = early_cancels \cup {t}
              /\ UNCHANGED cancel
        /\ UNCHANGED <<job, submission, reports, monitored_tasks, to_delete, start_reported,
                       running, stopped, cancel_requested>>
    BY <1>1 DEF Cancel, Take, Idle, TypeOK
  <1>3. attempts'[t] > 0 /\ \A r \in Task \ {t} : attempts'[r] = attempts[r]
    BY <1>2, Spawned
  <1>4. Registration' /\ History' /\ Watched'
    BY <1>0, <1>2, JobsUnchanged, RegistrationSame, HistorySame, WatchedSame
  <1>5. CancelSteps'
    BY <1>0, <1>1, <1>2, <1>3 DEF CancelSteps, AnswersKept, Reported
  <1>6. CancelsInProgress'
    <2>1. ASSUME ~stopped, job[t] \in ActiveJob PROVE CancelKept(t)'
      <3>1. CASE t \in monitored_tasks
        BY <1>2, <1>3, <3>1 DEF CancelKept
      <3>2. CASE t \notin monitored_tasks
        <4>1. ~Ended(t) /\ job[t] # "none"
          BY <1>1, <2>1 DEF History, ActiveJob, FinalJob
        <4>2. submission[t] = "reported" \/ Announced(t)
          <5>1. reports[t] # <<>>
            BY <1>1 DEF Reported
          <5>2. submission[t] \in SubmissionStep
            BY DEF TypeOK
          <5>. QED
            BY <1>1, <2>1, <3>2, <4>1, <5>1, <5>2 DEF History, Watched, SubmissionStep
        <4>. QED  BY <1>0, <1>2, <3>2, <4>2 DEF CancelKept, NewsKept
      <3>. QED  BY <3>1, <3>2
    <2>2. ASSUME ~stopped, NEW r \in cancel_requested, r # t, job[r] \in ActiveJob
          PROVE  CancelKept(r)'
      <3>1. CancelKept(r) /\ r \in Task
        BY <2>2 DEF CancelsInProgress, TypeOK
      <3>. QED  BY <1>0, <1>2, <1>3, <2>2, <3>1 DEF CancelKept, AnswersKept, NewsKept
    <2>. QED  BY <1>2, <2>1, <2>2 DEF CancelsInProgress
  <1>. QED  BY <1>4, <1>5, <1>6

LEMMA AnswerKeeps ==
  ASSUME IqmInv, TypeOK', NEW t \in Task, CancelDone(t) PROVE IqmInv'
  <1>. USE DEF IqmInv
  <1>. DEFINE ok == Head(monitor_receiver).ok
  <1>0. /\ NewsKept /\ CancelsKept /\ StopKept /\ ok \in BOOLEAN
        /\ (ok => CancelAccepted(t)) /\ (~ok => CancelFailed(t))
        /\ \A r \in Task : /\ CancelFailed(r)' => CancelFailed(r)
                           /\ CancelAccepted(r)' => CancelAccepted(r)
                           /\ r # t \/ ok => (CancelFailed(r) => CancelFailed(r)')
    BY TakenAnswer DEF CancelDone
  <1>1. /\ \A r \in Task \ {t} : cancel'[r] = cancel[r]
        /\ cancel'[t] = IF t \notin monitored_tasks \/ cancel[t] # "inflight" THEN cancel[t]
                        ELSE IF ok THEN "sent" ELSE "pending"
        /\ UNCHANGED <<job, submission, reports, monitored_tasks, to_delete, start_reported,
                       running, stopped, cancel_requested, attempts, early_cancels>>
    BY DEF CancelDone, TypeOK
  <1>. HIDE DEF ok
  <1>2. /\ t \in cancel_requested /\ ~CancelSent(t)
        /\ ok => job[t] \in FinalJob
    BY <1>0 DEF CancelSteps
  <1>3. Registration' /\ History' /\ Watched'
    BY <1>0, <1>1, JobsUnchanged, RegistrationSame, HistorySame, WatchedSame
  <1>4. CancelSteps'
    BY <1>0, <1>1, <1>2 DEF CancelSteps, CancelsKept, Reported
  <1>5. CancelsInProgress'
    <2>1. ASSUME ~stopped, NEW r \in cancel_requested, job[r] \in ActiveJob, CancelKept(r)
          PROVE  CancelKept(r)'
      <3>1. r = t => ~ok
        BY <1>2, <2>1 DEF ActiveJob, FinalJob
      <3>. QED
        BY <1>0, <1>1, <1>2, <2>1, <3>1 DEF CancelKept, CancelsKept, NewsKept, TypeOK
    <2>. QED  BY <1>1, <2>1 DEF CancelsInProgress
  <1>. QED  BY <1>3, <1>4, <1>5

LEMMA StopMonitorKeeps ==
  ASSUME IqmInv, TypeOK', StopMonitor PROVE IqmInv'
  <1>. USE DEF IqmInv
  <1>0. /\ StopSent /\ NewsKept /\ CancelsKept /\ AnswersKept
        /\ UNCHANGED <<job, submission, reports, monitored_tasks, to_delete, start_reported,
                       stopped, cancel_requested, cancel, attempts, early_cancels>>
    BY TakenStop DEF StopMonitor
  <1>1. stopped
    BY <1>0 DEF Watched
  <1>2. Registration' /\ History' /\ CancelSteps' /\ CancelsInProgress'
    BY <1>0, JobsUnchanged, RegistrationSame, HistorySame, CancelStepsSame,
       CancelsInProgressSame
  <1>3. Watched'
    BY <1>0, <1>1 DEF Watched
  <1>. QED  BY <1>2, <1>3

LEMMA BeginPollKeeps ==
  ASSUME IqmInv, TypeOK', NEW t \in Task, BeginPoll(t) PROVE IqmInv'
  <1>. USE DEF IqmInv
  <1>0. /\ NewsKept /\ CancelsKept /\ AnswersKept /\ StopKept /\ t \in monitored_tasks
        /\ UNCHANGED <<job, submission, reports, monitored_tasks, to_delete, start_reported,
                       running, stopped, cancel_requested, early_cancels>>
    BY ChannelUnchanged DEF ChannelKept, BeginPoll, TypeOK
  <1>1. CASE cancel[t] # "pending"
    BY <1>0, <1>1, JobsUnchanged, NothingConcerned DEF BeginPoll
  <1>2. CASE cancel[t] = "pending"
    <2>1. /\ \A r \in Task : cancel'[r] = IF r = t THEN "inflight" ELSE cancel[r]
          /\ SpawnCancelAttempt(t)
      BY <1>2 DEF BeginPoll, TypeOK
    <2>2. attempts'[t] > 0 /\ \A r \in Task \ {t} : attempts'[r] = attempts[r]
      BY <2>1, Spawned
    <2>3. Registration' /\ History' /\ Watched'
      BY <1>0, JobsUnchanged, RegistrationSame, HistorySame, WatchedSame
    <2>4. CancelSteps'
      BY <1>0, <1>2, <2>1, <2>2 DEF CancelSteps, CancelsKept, AnswersKept, Reported
    <2>5. CancelsInProgress'
      BY <1>0, <2>1, <2>2
         DEF CancelsInProgress, CancelKept, CancelsKept, AnswersKept, NewsKept, TypeOK
    <2>. QED  BY <2>3, <2>4, <2>5
  <1>. QED  BY <1>1, <1>2

LEMMA EndTickKeeps ==
  ASSUME IqmInv, TypeOK', EndTick PROVE IqmInv'
  <1>. USE DEF IqmInv
  <1>0. /\ NewsKept /\ CancelsKept /\ AnswersKept /\ StopKept
        /\ monitored_tasks' = monitored_tasks \ to_delete /\ to_delete' = {}
        /\ start_reported' = start_reported \ to_delete
        /\ \A r \in Task : cancel'[r] = IF r \in to_delete THEN "none" ELSE cancel[r]
        /\ UNCHANGED <<job, submission, reports, running, stopped, cancel_requested,
                       attempts, early_cancels>>
    BY ChannelUnchanged DEF ChannelKept, EndTick
  <1>1. \A t \in to_delete : t \in Task /\ Ended(t) /\ job[t] \in FinalJob
    <2>1. ASSUME NEW t \in to_delete PROVE t \in Task /\ Ended(t) /\ job[t] \in FinalJob
      <3>1. t \in Task /\ t \in monitored_tasks
        BY DEF TypeOK
      <3>2. reports[t] # <<>> /\ reports[t][1] = "submitted" /\ Ended(t)
            /\ reports[t] \in Seq(Report)
        BY <3>1 DEF History, TypeOK
      <3>3. Reported(t, "submitted")
        BY <3>2 DEF Reported
      <3>. QED  BY <3>1, <3>2, <3>3 DEF History
    <2>. QED  BY <2>1
  <1>2. Registration'
    BY <1>0, JobsUnchanged, RegistrationSame
  <1>3. History'
    BY <1>0 DEF History, NewsKept, Reported, Ended
  <1>4. Watched'
    BY <1>0, <1>1 DEF Watched, NewsKept, StopKept, Ended
  <1>5. CancelSteps'
    BY <1>0 DEF CancelSteps, CancelsKept, AnswersKept, Reported
  <1>6. CancelsInProgress'
    <2>1. ASSUME ~stopped, NEW r \in cancel_requested, job[r] \in ActiveJob, CancelKept(r)
          PROVE  CancelKept(r)'
      <3>1. r \notin to_delete
        BY <1>1, <2>1 DEF ActiveJob, FinalJob
      <3>. QED
        BY <1>0, <2>1, <3>1 DEF CancelKept, CancelsKept, AnswersKept, NewsKept, TypeOK
    <2>. QED  BY <1>0, <2>1 DEF CancelsInProgress
  <1>. QED  BY <1>2, <1>3, <1>4, <1>5, <1>6

(* The answer to a poll: the job is known and not told to have ended, and    *)
(* what is sent continues what was sent.                                     *)
LEMMA AnsweredPoll ==
  ASSUME IqmInv, TypeOK', NEW t \in Task, PollAnswered(t)
  PROVE  /\ t \in monitored_tasks \ to_delete /\ job[t] # "none"
         /\ Reported(t, "submitted") /\ ~Ended(t)
         /\ reports'[t] # <<>> /\ reports'[t][1] = "submitted" /\ Ordered(reports'[t])
         /\ job[t] \in FinalJob => Ended(t)'
         /\ job[t] \notin FinalJob => Open(reports'[t])
         /\ \A k \in DOMAIN reports'[t] :
              reports'[t][k] = "started" => t \in start_reported'
         /\ \A r \in Task \ {t} : reports'[r] = reports[r]
  <1>. USE DEF IqmInv
  <1>1. t \in due /\ t \in monitored_tasks \ to_delete
    BY IqmAssumption DEF PollAnswered, TypeOK
  <1>2. job[t] # "none"
    BY <1>1 DEF Registration
  <1>3. /\ reports[t] \in Seq(Report) /\ reports[t] # <<>> /\ reports[t][1] = "submitted"
        /\ Open(reports[t]) /\ Ordered(reports[t])
        /\ \A k \in DOMAIN reports[t] : reports[t][k] = "started" => t \in start_reported
    BY <1>1 DEF History, TypeOK
  <1>4. Len(reports[t]) \in DOMAIN reports[t] /\ 1 \in DOMAIN reports[t]
    BY <1>3
  <1>5. Reported(t, "submitted") /\ ~Ended(t)
    BY <1>3, <1>4 DEF Reported, Ended, Open
  <1>6. /\ Continues(News(t), job[t], t \in start_reported)
        /\ \A k \in DOMAIN News(t) : News(t)[k] = "started" => t \in executed
    BY <1>2, NewsContinues
  <1>7. /\ \A r \in Task \ {t} : reports'[r] = reports[r]
        /\ \/ reports'[t] = reports[t] \o News(t)
           \/ reports'[t] = reports[t] /\ News(t) # <<>> /\ News(t)[Len(News(t))] = "running"
    <2>1. News(t) \in Seq(Report) /\ SendReports(t, News(t))
      BY <1>6 DEF Continues, PollAnswered
    <2>. QED  BY <2>1, SentReports
  <1>8. start_reported' = start_reported \cup (executed \cap {t})
    BY DEF PollAnswered
  <1>9. CASE reports'[t] = reports[t] \o News(t)
    <2>. DEFINE all == reports[t] \o News(t)
    <2>1. /\ all \in Seq(Report) /\ all # <<>> /\ all[1] = "submitted" /\ Ordered(all)
          /\ job[t] \in FinalJob => all[Len(all)] = job[t]
          /\ job[t] \notin FinalJob => Open(all)
          /\ \A k \in DOMAIN all : all[k] = "started" =>
               t \in start_reported \/ \E l \in DOMAIN News(t) : News(t)[l] = "started"
      <3>. DEFINE started == t \in start_reported
                  news == News(t)
      <3>1. started \in BOOLEAN /\ Continues(news, job[t], started)
            /\ \A k \in DOMAIN reports[t] : reports[t][k] = "started" => started
        BY <1>3, <1>6
      <3>. HIDE DEF started, news
      <3>2. LET q == reports[t] \o news IN
            /\ q \in Seq(Report) /\ q # <<>> /\ q[1] = "submitted" /\ Ordered(q)
            /\ job[t] \in FinalJob => q[Len(q)] = job[t]
            /\ job[t] \notin FinalJob => Open(q)
            /\ \A k \in DOMAIN q : q[k] = "started" =>
                 started \/ \E l \in DOMAIN news : news[l] = "started"
        BY <1>3, <3>1, OrderIsContinued
      <3>. QED  BY <3>2 DEF started, news
    <2>. HIDE DEF all
    <2>2. reports'[t] = all
      BY <1>9 DEF all
    <2>3. job[t] \in FinalJob => Ended(t)'
      BY <2>1, <2>2 DEF Ended
    <2>4. \A k \in DOMAIN all : all[k] = "started" => t \in start_reported'
      BY <1>6, <1>8, <2>1
    <2>. QED  BY <1>1, <1>2, <1>5, <1>7, <2>1, <2>2, <2>3, <2>4
  <1>10. CASE reports'[t] = reports[t] /\ News(t) # <<>> /\ News(t)[Len(News(t))] = "running"
    <2>1. job[t] \notin FinalJob
      BY <1>6, <1>10 DEF Continues, FinalJob
    <2>. QED  BY <1>1, <1>2, <1>3, <1>5, <1>7, <1>8, <1>10, <2>1
  <1>. QED  BY <1>7, <1>9, <1>10

LEMMA PollAnsweredKeeps ==
  ASSUME IqmInv, TypeOK', NEW t \in Task, PollAnswered(t) PROVE IqmInv'
  <1>. USE DEF IqmInv
  <1>0. /\ NewsKept /\ CancelsKept /\ AnswersKept /\ StopKept
        /\ start_reported \subseteq start_reported'
        /\ to_delete' = IF job[t] \in FinalJob THEN to_delete \cup {t} ELSE to_delete
        /\ UNCHANGED <<job, submission, monitored_tasks, running, stopped,
                       cancel_requested, cancel, attempts, early_cancels>>
    BY ChannelUnchanged DEF ChannelKept, PollAnswered
  <1>1. /\ t \in monitored_tasks \ to_delete /\ job[t] # "none"
        /\ Reported(t, "submitted") /\ ~Ended(t)
        /\ reports'[t] # <<>> /\ reports'[t][1] = "submitted" /\ Ordered(reports'[t])
        /\ job[t] \in FinalJob => Ended(t)'
        /\ job[t] \notin FinalJob => Open(reports'[t])
        /\ \A k \in DOMAIN reports'[t] :
             reports'[t][k] = "started" => t \in start_reported'
        /\ \A r \in Task \ {t} : reports'[r] = reports[r]
    BY AnsweredPoll
  <1>2. \A r \in Task \ {t} : /\ Ended(r)' <=> Ended(r)
                              /\ Reported(r, "submitted")' <=> Reported(r, "submitted")
    BY <1>1 DEF Ended, Reported
  <1>3. reports'[t] \in Seq(Report) /\ 1 \in DOMAIN reports'[t]
        /\ Len(reports'[t]) \in DOMAIN reports'[t]
    BY <1>1 DEF TypeOK
  <1>4. Reported(t, "submitted")' /\ (Ended(t)' <=> job[t] \in FinalJob)
    BY <1>1, <1>3 DEF Reported, Ended, Open
  <1>5. Registration'
    BY <1>0, JobsUnchanged, RegistrationSame
  <1>6. submission[t] = "over" /\ ~Announced(t)
    BY <1>1 DEF Registration
  <1>7. History'
    BY <1>0, <1>1, <1>2, <1>4, <1>6 DEF History, NewsKept
  <1>8. Watched'
    BY <1>0, <1>1, <1>2, <1>4 DEF Watched, NewsKept, StopKept
  <1>9. CancelSteps'
    BY <1>0, <1>1, <1>2, <1>4 DEF CancelSteps, CancelsKept, AnswersKept
  <1>10. CancelsInProgress'
    BY <1>0, JobsUnchanged, CancelsInProgressSame
  <1>. QED  BY <1>5, <1>7, <1>8, <1>9, <1>10

-----------------------------------------------------------------------------
(* The theorems. *)

LEMMA IqmInit == Init => IqmInv
  <1>. SUFFICES ASSUME Init PROVE IqmInv
    OBVIOUS
  <1>1. /\ \A t \in Task : /\ submission[t] = "none" /\ attempts[t] = 0
                           /\ cancel[t] = "none"
                           /\ job[t] = "none" <=> t \notin Resumable
                           /\ t \in Resumable => reports[t] = <<"submitted">>
                           /\ t \notin Resumable => reports[t] = <<>>
        /\ monitored_tasks = {} /\ start_reported = {} /\ early_cancels = {}
        /\ to_delete = {} /\ cancel_requested = {} /\ stopped = FALSE /\ running
    BY DEF Init
  <1>2. /\ \A t \in Task : Single(Cmd("new", t)) /\ Single(Cmd("cancel", t))
        /\ Commands = {}
    BY DEF Init, Single, Commands
  <1>3. \A t \in Task : ~Ended(t) /\ Ordered(reports[t])
    <2>1. ASSUME NEW t \in Task PROVE ~Ended(t) /\ Ordered(reports[t])
      <3>1. CASE reports[t] = <<>>
        BY <3>1 DEF Ended, Ordered
      <3>2. CASE reports[t] = <<"submitted">>
        BY <3>2 DEF Ended, Ordered, FinalJob
      <3>. QED  BY <1>1, <3>1, <3>2
    <2>. QED  BY <2>1
  <1>4. \A t \in Task : Reported(t, "submitted") => t \in Resumable
    BY <1>1 DEF Reported
  <1>5. Registration
    BY <1>1, <1>2 DEF Registration, Announced
  <1>6. History
    BY <1>1, <1>2, <1>3, <1>4 DEF History, Announced
  <1>7. Watched
    BY <1>1, <1>2 DEF Watched, StopSent
  <1>8. CancelSteps /\ CancelsInProgress
    BY <1>1, <1>2 DEF CancelSteps, CancelsInProgress, CancelSent, CancelAccepted,
                      CancelFailed
  <1>. QED  BY <1>5, <1>6, <1>7, <1>8, TypeInit DEF IqmInv

LEMMA IqmStep ==
  ASSUME IqmInv, [Next]_vars PROVE IqmInv'
  <1>0. \A t \in monitored_tasks : job[t] # "none"
    BY DEF IqmInv, Registration, TypeOK
  <1>1. TypeOK'
    BY <1>0, TypeStep DEF IqmInv
  <1>2. CASE UNCHANGED vars
    BY <1>1, <1>2, JobsUnchanged, NothingConcerned DEF vars
  <1>3. CASE LauncherCall
    BY <1>1, <1>3, SubmitKeeps, ResumeKeeps, CancelTaskKeeps, StopKeeps DEF LauncherCall
  <1>4. CASE Submission
    BY <1>1, <1>4, FailKeeps, ReportSubmittedKeeps, RegisterKeeps DEF Submission
  <1>5. CASE MonitorCommand
    BY <1>1, <1>5, NewTaskKeeps, CancelKeeps, AnswerKeeps, StopMonitorKeeps
       DEF MonitorCommand
  <1>6. ASSUME NEW t \in Task, JobStarts(t) \/ \E state \in FinalJob : JobEnds(t, state)
        PROVE  IqmInv'
    <2>1. JobsGoOn
      BY <1>6, StartsAndEnds DEF IqmInv
    <2>. QED  BY <1>1, <1>6, <2>1, NothingConcerned DEF JobStarts, JobEnds
  <1>7. CASE Server
    BY <1>1, <1>6, <1>7, AcceptKeeps, AttemptKeeps DEF Server
  <1>8. ASSUME NEW tasks \in SUBSET monitored_tasks, Tick(tasks) PROVE IqmInv'
    BY <1>1, <1>8, JobsUnchanged, NothingConcerned DEF Tick
  <1>9. ASSUME NEW t \in Task, PollFails(t) PROVE IqmInv'
    BY <1>1, <1>9, JobsUnchanged, NothingConcerned DEF PollFails
  <1>10. ASSUME NEW t \in Task, Poll(t) PROVE IqmInv'
    BY <1>1, <1>9, <1>10, BeginPollKeeps, PollAnsweredKeeps DEF Poll
  <1>. QED
    BY <1>1, <1>2, <1>3, <1>4, <1>5, <1>7, <1>8, <1>10, EndTickKeeps DEF Next

LEMMA IqmInvariant == Spec => []IqmInv
  BY IqmInit, IqmStep, PTL DEF Spec

(* Of every job the launcher is told first that it exists, at most once that *)
(* it started, and last and once how it ended (poll_tick and report_status   *)
(* against cancels that end the job under way).                              *)
THEOREM ReportsStayInOrder == Spec => []ReportsAreInOrder
  <1>1. IqmInv => ReportsAreInOrder
    BY DEF IqmInv, History, Ordered, ReportsAreInOrder
  <1>. QED  BY <1>1, IqmInvariant, PTL

(* A job the launcher was told of and not told the end of is polled, or the  *)
(* command that registers it is on its way, as long as the backend was not   *)
(* stopped: neither failed polls nor cancels that overtake the registration  *)
(* end the monitoring.                                                       *)
THEOREM JobsStayMonitored == Spec => []EveryJobIsMonitored
  <1>1. IqmInv => EveryJobIsMonitored
    <2>1. ASSUME IqmInv, ~stopped, NEW t \in Task, Reported(t, "submitted"), ~Ended(t)
          PROVE  \/ t \in monitored_tasks \ to_delete
                 \/ submission[t] = "reported" \/ Announced(t)
                 \/ t \in Resumable /\ submission[t] = "none"
      <3>1. submission[t] = "over" =>
              Announced(t) \/ t \in monitored_tasks \ to_delete
        BY <2>1 DEF IqmInv, Watched
      <3>2. reports[t] # <<>>
        BY <2>1 DEF Reported
      <3>3. t \notin Resumable => submission[t] \in {"reported", "over"}
        BY <2>1, <3>2 DEF IqmInv, History, TypeOK, SubmissionStep
      <3>4. t \in Resumable => submission[t] \in {"none", "over"}
        BY <2>1 DEF IqmInv, Registration
      <3>. QED  BY <3>1, <3>3, <3>4
    <2>. QED  BY <2>1, CommandsAreOnTheirWay DEF EveryJobIsMonitored, Announced
  <1>. QED  BY <1>1, IqmInvariant, PTL

(* A cancel the launcher asked for is in the channel, kept for the next      *)
(* poll, in an attempt, or waits for the registration of its task, until the *)
(* server has accepted one or the job has ended: no refused, late or         *)
(* overtaking attempt loses it.                                              *)
THEOREM CancelsAreNotLost == Spec => []CancelIsNotLost
  <1>1. IqmInv => CancelIsNotLost
    BY CommandsAreOnTheirWay
       DEF IqmInv, CancelsInProgress, CancelKept, CancelIsNotLost, CancelSent, CancelFailed,
           Announced, Refusal
  <1>. QED  BY <1>1, IqmInvariant, PTL

=============================================================================
