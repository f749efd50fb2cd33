------------------------ MODULE PrometheusCollection ------------------------
(***************************************************************************)
(* collect_prometheus() of collect/prometheus.py: three control requests,  *)
(* then one discovery request for every selected job that job-values       *)
(* names, then one range request for every pair of a job and a matching    *)
(* metric that its discovery names; each request a capture directory of    *)
(* its own, and one rename at the end.  The server may answer anything, or *)
(* break off, or go on for ever; the workstation's files may fail.         *)
(***************************************************************************)
EXTENDS Naturals, Sequences, SequencesExt

CONSTANTS SelectedJobs, \* the job names that match _SELECTED_JOB
          Matching,     \* the metric names that match metrics_filter_regex
          JobLists,     \* what job-values may name
          MetricLists,  \* what a discovery may name
          NoName,
          Timed         \* request_timeout_seconds is not 0

ASSUME ListsShape ==
         /\ SelectedJobs \subseteq STRING /\ Matching \subseteq STRING
         /\ JobLists \subseteq Seq(STRING) /\ MetricLists \subseteq Seq(STRING)
         /\ NoName \in STRING \ SelectedJobs /\ Timed \in BOOLEAN

VARIABLES
  ppc,       \* where collect_prometheus is
  stage,     \* which of its three loops
  left,      \* the requests that loop has still to make
  jobs,      \* metric_names_by_job
  captures,  \* the captures so far: request, outcome, the list it holds
  reply,     \* how the request at hand went
  beat,      \* flips with every chunk that arrives
  admitted,  \* the contribution was promoted
  problems   \* the list is not empty

request == <<stage, left, jobs>>
answer  == <<admitted, problems>>
vars    == <<ppc, request, captures, reply, beat, answer>>

WorkingLabels == {"prepare", "next", "connect", "read", "judge", "tidy"}

Goto(from, to) == ppc = from /\ ppc' = to

Return(problem) == ppc' = "returned" /\ problems' = (problems \/ problem)

Request(kind, number, job, metric) ==
  [kind |-> kind, number |-> number, job |-> job, metric |-> metric]

Control(kind) == Request(kind, 0, NoName, NoName)

Controls == <<Control("buildinfo"), Control("targets"), Control("job-values")>>

\* enumerate(job_names, 1)
Discoveries(names) ==
  [i \in DOMAIN names |-> Request("metric-names", i, names[i], NoName)]

\* Mutant: dict.fromkeys is forgotten.
WithDuplicates(s) == s

\* tuple(dict.fromkeys(values)): the first of equal names stays.
DistinctAfter(s) ==
  LET t[n \in 0 .. Len(s)] ==
        IF n = 0 THEN <<>>
        ELSE IF Contains(t[n - 1], s[n]) THEN t[n - 1] ELSE Append(t[n - 1], s[n])
  IN  t

Distinct(s) == DistinctAfter(s)[Len(s)]

\* The names that a pattern finds, in their order.
MatchesAfter(s, pattern) ==
  LET t[n \in 0 .. Len(s)] ==
        IF n = 0 THEN <<>>
        ELSE IF s[n] \in pattern THEN Append(t[n - 1], s[n]) ELSE t[n - 1]
  IN  t

Matches(s, pattern) == MatchesAfter(s, pattern)[Len(s)]

\* A job with each of its matching metrics.
Row(j) ==
  LET names == Matches(j.metrics, Matching)
  IN  [k \in DOMAIN names |-> <<j.job, names[k]>>]

PairsAfter(js) ==
  LET t[n \in 0 .. Len(js)] == IF n = 0 THEN <<>> ELSE t[n - 1] \o Row(js[n])
  IN  t

\* The pairs in order, numbered over all jobs.
Ranges ==
  LET pairs == PairsAfter(jobs)[Len(jobs)]
  IN  [i \in DOMAIN pairs |-> Request("query-range", i, pairs[i][1], pairs[i][2])]

-----------------------------------------------------------------------------
(* The loops. *)

Prepare ==
  /\ Goto("prepare", "next")
  /\ UNCHANGED <<request, captures, reply, beat, answer>>

\* Staging, or a capture's directory and file, could not be made.
CannotCapture ==
  /\ ppc = "prepare" \/ (ppc = "next" /\ left # <<>>)
  /\ Return(TRUE)
  /\ UNCHANGED <<request, captures, reply, beat, admitted>>

\* The discoveries of a loop are made before any range is asked for.
NextLoop ==
  /\ ppc = "next" /\ left = <<>> /\ stage = "discoveries"
  /\ stage' = "ranges" /\ left' = Ranges
  /\ UNCHANGED <<ppc, jobs, captures, reply, beat, answer>>

OpenCapture ==
  /\ Goto("next", "connect") /\ left # <<>>
  /\ UNCHANGED <<request, captures, reply, beat, answer>>

-----------------------------------------------------------------------------
(* _capture_request *)

\* urlopen returns a response, of any status.
Respond ==
  /\ Goto("connect", "read")
  /\ UNCHANGED <<request, captures, reply, beat, answer>>

\* No connection, or not HTTP; while a body is read, a connection that breaks.
ServerFails ==
  /\ Goto("connect", "judge") \/ Goto("read", "judge")
  /\ reply' = "error"
  /\ UNCHANGED <<request, captures, beat, answer>>

\* Mutant: the timeout is urlopen's only.
TimesOutConnecting ==
  /\ Timed /\ Goto("connect", "judge")
  /\ reply' = "error"
  /\ UNCHANGED <<request, captures, beat, answer>>

\* Nothing has come for the length of the timeout, which each chunk restarts.
TimesOut ==
  /\ Timed /\ (Goto("connect", "judge") \/ Goto("read", "judge"))
  /\ reply' = "error"
  /\ UNCHANGED <<request, captures, beat, answer>>

Chunk ==
  /\ ppc = "read"
  /\ beat' = ~beat
  /\ UNCHANGED <<ppc, request, captures, reply, answer>>

\* The response ends: where its length says, or before, or with a status or a
\* document that is not a success.
ResponseEnds ==
  /\ Goto("read", "judge")
  /\ reply' \in {"good", "cut", "bad"}
  /\ UNCHANGED <<request, captures, beat, answer>>

\* An OSError of the response file or of result.json.
CaptureBreaks ==
  /\ ppc \in {"read", "judge"}
  /\ Return(TRUE)
  /\ UNCHANGED <<request, captures, reply, beat, admitted>>

\* What json.loads raises beyond its handler, such as RecursionError, ends the
\* call; run() makes a problem of it.
Escape ==
  /\ ppc = "judge" /\ reply = "good"
  /\ Return(TRUE)
  /\ UNCHANGED <<request, captures, reply, beat, admitted>>

-----------------------------------------------------------------------------
(* What becomes of a capture. *)

Record(outcome, list) ==
  /\ Goto("judge", "next")
  /\ captures' = Append(captures, [request |-> Head(left), outcome |-> outcome, list |-> list])
  /\ reply' = "none"
  /\ UNCHANGED <<beat, admitted>>

RecordFailure ==
  /\ reply # "good" /\ Record("failed", <<>>)
  /\ problems' = TRUE
  /\ left' = Tail(left) /\ UNCHANGED <<stage, jobs>>

RecordPlain ==
  /\ reply = "good" /\ Head(left).kind \notin {"job-values", "metric-names"}
  /\ Record("fine", <<>>)
  /\ left' = Tail(left) /\ UNCHANGED <<stage, jobs, problems>>

\* Mutant: what was not understood is left out silently.
RecordMalformedQuietly ==
  /\ reply = "good" /\ Head(left).kind \in {"job-values", "metric-names"}
  /\ Record("malformed", <<>>)
  /\ left' = Tail(left) /\ UNCHANGED <<stage, jobs, problems>>

\* A success whose data is not a list of strings.
RecordMalformed ==
  /\ reply = "good" /\ Head(left).kind \in {"job-values", "metric-names"}
  /\ Record("malformed", <<>>)
  /\ problems' = TRUE
  /\ left' = Tail(left) /\ UNCHANGED <<stage, jobs>>

\* The last control's answer schedules the discoveries.
RecordJobs ==
  /\ reply = "good" /\ Head(left).kind = "job-values"
  /\ \E list \in JobLists :
       /\ Record("listed", list)
       /\ left' = Discoveries(Matches(list, SelectedJobs))
  /\ UNCHANGED <<stage, jobs, problems>>

RecordMetrics ==
  /\ reply = "good" /\ Head(left).kind = "metric-names"
  /\ \E list \in MetricLists :
       /\ Record("listed", list)
       /\ jobs' = Append(jobs, [job |-> Head(left).job, metrics |-> Distinct(list)])
  /\ left' = Tail(left) /\ UNCHANGED <<stage, problems>>

-----------------------------------------------------------------------------
(* The end. *)

Promote ==
  /\ Goto("next", "tidy") /\ left = <<>> /\ stage = "ranges"
  /\ admitted' = TRUE
  /\ UNCHANGED <<request, captures, reply, beat, problems>>

\* Mutant: the failed rename is not a problem.
CannotPromoteQuietly ==
  /\ ppc = "next" /\ left = <<>> /\ stage = "ranges"
  /\ Return(FALSE)
  /\ UNCHANGED <<request, captures, reply, beat, admitted>>

CannotPromote ==
  /\ ppc = "next" /\ left = <<>> /\ stage = "ranges"
  /\ Return(TRUE)
  /\ UNCHANGED <<request, captures, reply, beat, admitted>>

TidyStaging ==
  /\ ppc = "tidy"
  /\ \E fails \in BOOLEAN : Return(fails)
  /\ UNCHANGED <<request, captures, reply, beat, admitted>>

\* KeyboardInterrupt passes every handler of this module.
Keystroke ==
  /\ ppc \in WorkingLabels
  /\ ppc' = "interrupted"
  /\ UNCHANGED <<request, captures, reply, beat, answer>>

Init ==
  /\ ppc = "prepare" /\ stage = "discoveries" /\ left = Controls /\ jobs = <<>>
  /\ captures = <<>> /\ reply = "none" /\ beat = FALSE
  /\ admitted = FALSE /\ problems = FALSE

\* The steps the workstation takes by itself.
Client ==
  \/ Prepare \/ CannotCapture \/ NextLoop \/ OpenCapture \/ Escape
  \/ RecordFailure \/ RecordPlain \/ RecordMalformed \/ RecordJobs \/ RecordMetrics
  \/ Promote \/ CannotPromote \/ TidyStaging

Server == Respond \/ Chunk \/ ResponseEnds \/ ServerFails

Next == Client \/ Server \/ TimesOut \/ CaptureBreaks \/ Keystroke

Spec == Init /\ [][Next]_vars

\* The server owes nothing; a silence that no chunk ends, the timeout ends.
FairSpec == Spec /\ WF_vars(Client) /\ (WF_vars(TimesOut) \/ []<><<Chunk>>_vars)

=============================================================================
