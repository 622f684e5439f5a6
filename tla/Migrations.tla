------------------------------ MODULE Migrations ------------------------------
(***************************************************************************)
(* The schema revisions of src/data/migrations/alembic/versions, as        *)
(* functions on a database.  A table is the set of columns an INSERT may   *)
(* leave out (nullable, or with a server default), the set it must supply  *)
(* (NOT NULL, no default), its unique keys and its foreign keys; column    *)
(* types and plain indexes are left out, and so is the column "id" that    *)
(* every table has.  Of the rows, a database keeps what the revisions read *)
(* or write: which tables hold one, and the session and the enrolment of   *)
(* one candidate.  A statement PostgreSQL refuses clears "ok".             *)
(***************************************************************************)
EXTENDS Naturals, Sequences, Functions

Started == {"IN_PROGRESS", "COMPLETED", "EVALUATED"}
SessionStates == {"ABSENT", "INITIALIZING", "IN_PROGRESS", "PAUSED", "DISCONNECTED",
                  "COMPLETED", "TERMINATED", "EVALUATED", "EVALUATION_FAILED"}
EnrolmentStates == {"NONE", "INVITED", "TERMINATED"} \cup Started

Table(free, must, keys, refs) ==
    [free |-> free, must |-> must, keys |-> keys, refs |-> refs]

EmptyTables == [t \in {} |-> Table({}, {}, {}, {})]

(* A database that holds nothing: no table, no row. *)
EmptyDb ==
    [tables |-> EmptyTables, checks |-> {}, filled |-> {}, ok |-> TRUE,
     session |-> [status |-> "ABSENT", deadline |-> FALSE],
     enrolment |-> [status |-> "NONE", consumed |-> FALSE]]

Columns(table) == table.free \cup table.must

If(d, cond, result) == IF d.ok /\ cond THEN result ELSE [d EXCEPT !.ok = FALSE]

(* A statement puts the tables of "new" in place of those of their names. *)
Override(tables, new) ==
    [t \in DOMAIN tables \cup DOMAIN new |-> IF t \in DOMAIN new THEN new[t] ELSE tables[t]]

Change(d, cond, new) == If(d, cond, [d EXCEPT !.tables = Override(@, new)])

CreateTables(d, new) == Change(d, DOMAIN new \cap DOMAIN d.tables = {}, new)

(* The rows of a dropped table go with it. *)
DropTables(d, names) ==
    If(d, names \subseteq DOMAIN d.tables,
       [d EXCEPT !.tables = Restrict(@, DOMAIN @ \ names),
                 !.filled = @ \ names,
                 !.session = IF "interview_sessions" \in names THEN EmptyDb.session ELSE @,
                 !.enrolment = IF "candidate_assessments" \in names
                               THEN EmptyDb.enrolment ELSE @])

DropTablesIfExist(d, names) == DropTables(d, names \cap DOMAIN d.tables)

With(table, free, must) ==
    Table(table.free \cup free, table.must \cup must, table.keys, table.refs)

(* A column that must be supplied cannot be added to a table with rows.      *)
(* Here and below a statement on a table that is not there is refused.       *)
AddColumns(d, names, free, must) ==
    Change(d, /\ names \subseteq DOMAIN d.tables
              /\ \A t \in names : (free \cup must) \cap Columns(d.tables[t]) = {}
              /\ must = {} \/ names \cap d.filled = {},
           [t \in names |-> With(d.tables[t], free, must)])

(* A dropped column takes its keys and references with it. *)
Without(table, columns) ==
    Table(table.free \ columns, table.must \ columns,
          {k \in table.keys : k \cap columns = {}}, {r \in table.refs : r[1] \notin columns})

DropColumns(d, names, columns) ==
    Change(d, /\ names \subseteq DOMAIN d.tables
              /\ \A t \in names : columns \subseteq Columns(d.tables[t]),
           [t \in names |-> Without(d.tables[t], columns)])

(* The columns of each table that lose or get a default. *)
HasColumns(d, columns) ==
    /\ DOMAIN columns \subseteq DOMAIN d.tables
    /\ \A t \in DOMAIN columns : columns[t] \subseteq Columns(d.tables[t])

Bare(table, columns) ==
    Table(table.free \ columns, table.must \cup columns, table.keys, table.refs)
Defaulted(table, columns) ==
    Table(table.free \cup columns, table.must \ columns, table.keys, table.refs)

DropDefaults(d, columns) ==
    Change(d, HasColumns(d, columns),
           [t \in DOMAIN columns |-> Bare(d.tables[t], columns[t])])
SetDefaults(d, columns) ==
    Change(d, HasColumns(d, columns),
           [t \in DOMAIN columns |-> Defaulted(d.tables[t], columns[t])])

Unbound(table, keys, refs) ==
    Table(table.free, table.must, table.keys \ keys, table.refs \ refs)
Bound(table, keys, refs) ==
    Table(table.free, table.must, table.keys \cup keys, table.refs \cup refs)

DropConstraints(d, t, keys, refs) ==
    Change(d, /\ t \in DOMAIN d.tables
              /\ keys \subseteq d.tables[t].keys /\ refs \subseteq d.tables[t].refs,
           [x \in {t} |-> Unbound(d.tables[x], keys, refs)])

(* The columns that unique keys and references are over; no row breaks them. *)
Over(keys, refs) == (UNION keys) \cup {r[1] : r \in refs}

AddConstraints(d, t, keys, refs) ==
    Change(d, /\ t \in DOMAIN d.tables
              /\ Over(keys, refs) \subseteq Columns(d.tables[t]),
           [x \in {t} |-> Bound(d.tables[x], keys, refs)])

-----------------------------------------------------------------------------
(* 0001: recruiters, candidates, assessments, enrolments and the three logs. *)

PeopleTables ==
    [recruiters |-> Table({"is_active", "created_at", "updated_at"},
        {"full_name", "email", "hashed_password", "company_name"}, {{"email"}}, {}),
     candidates |-> Table({"created_at", "updated_at"},
        {"full_name", "email", "created_by"}, {{"email"}}, {<<"created_by", "recruiters">>})]

AssessmentTables ==
    [assessments |-> Table(
        {"jd_file_path", "jd_analysis", "focus_areas", "interview_plan", "status",
         "created_at", "updated_at"},
        {"recruiter_id", "title", "role_name", "jd_text", "interview_duration_mins",
         "window_start", "window_end"}, {}, {<<"recruiter_id", "recruiters">>}),
     candidate_assessments |-> Table(
        {"resume_parsed", "resume_parse_status", "invitation_token", "status",
         "interview_started_at", "interview_ended_at", "recruiter_decision",
         "recruiter_feedback", "reminders_sent", "created_at", "updated_at"},
        {"candidate_id", "assessment_id", "resume_file_path"},
        {{"candidate_id", "assessment_id"}, {"invitation_token"}},
        {<<"candidate_id", "candidates">>, <<"assessment_id", "assessments">>})]

LogTables ==
    [csv_upload_logs |-> Table(
        {"successful_rows", "failed_rows", "row_results", "overall_status", "uploaded_at"},
        {"recruiter_id", "assessment_id", "total_rows"}, {},
        {<<"recruiter_id", "recruiters">>, <<"assessment_id", "assessments">>}),
     notification_logs |-> Table({"sent_at", "delivery_status", "error_message"},
        {"candidate_assessment_id", "notification_type", "recipient_email"}, {},
        {<<"candidate_assessment_id", "candidate_assessments">>}),
     audit_logs |-> Table(
        {"candidate_assessment_id", "recruiter_id", "metadata", "error_message",
         "duration_ms", "created_at"}, {"service", "event_type", "event_status"}, {},
        {<<"candidate_assessment_id", "candidate_assessments">>,
         <<"recruiter_id", "recruiters">>})]

InitialSchemaUp(d) ==
    CreateTables(CreateTables(CreateTables(d, PeopleTables), AssessmentTables), LogTables)

InitialSchemaDown(d) ==
    DropTables(d, DOMAIN PeopleTables \cup DOMAIN AssessmentTables \cup DOMAIN LogTables)

-----------------------------------------------------------------------------
(* 0002: the interview.  Every table belongs to an enrolment. *)

OfEnrolment == {<<"candidate_assessment_id", "candidate_assessments">>}

ConversationTables ==
    [interview_sessions |-> Table(
        {"status", "current_section", "section_progress", "timer_started_at",
         "total_elapsed_secs", "total_pause_secs", "paused_at", "grace_period_expires_at",
         "connectivity_events", "created_at", "last_updated_at"},
        {"candidate_assessment_id"}, {{"candidate_assessment_id"}}, OfEnrolment),
     transcript_turns |-> Table({"timestamp", "stt_confidence", "turn_type", "concept_tags"},
        {"candidate_assessment_id", "turn_number", "speaker", "text", "section"},
        {{"candidate_assessment_id", "turn_number"}}, OfEnrolment)]

AnswerTable == Table(
    {"skill", "signals_present", "signals_missing", "tone_scores", "one_line_feedback",
     "evaluated_at"},
    {"candidate_assessment_id", "turn_number", "section", "question_text", "answer_text",
     "quality", "score"}, {{"candidate_assessment_id", "turn_number"}}, OfEnrolment)

EvaluationTable == Table(
    {"tone_classification_score", "tone_distribution", "recommendation_override_reason",
     "red_flags", "best_answer", "weakest_answer", "rank_in_assessment",
     "percentile_in_assessment", "total_candidates_evaluated", "generated_at"},
    {"candidate_assessment_id", "skill_scores", "technical_dimension_score",
     "problem_solving_score", "problem_solving_evidence", "problem_solving_summary",
     "communication_score", "communication_evidence", "communication_summary",
     "behavioural_score", "behavioural_evidence", "behavioural_summary",
     "cultural_fit_score", "cultural_fit_evidence", "cultural_fit_summary", "overall_score",
     "hiring_recommendation", "overall_narrative", "strengths", "concerns",
     "recommendation_reasoning"}, {{"candidate_assessment_id"}}, OfEnrolment)

InterviewTablesUp(d) ==
    CreateTables(CreateTables(d, ConversationTables),
        [answer_evaluations |-> AnswerTable, interview_evaluations |-> EvaluationTable])

InterviewTablesDown(d) ==
    DropTables(d, {"interview_evaluations", "answer_evaluations", "transcript_turns",
                   "interview_sessions"})

(* 0003: the refresh tokens. *)
TokenTable == Table(
    {"is_revoked", "created_at", "last_used_at", "user_agent", "ip_address"},
    {"recruiter_id", "token_hash", "expires_at"}, {{"token_hash"}},
    {<<"recruiter_id", "recruiters">>})

RecruiterTokensUp(d) == CreateTables(d, [recruiter_tokens |-> TokenTable])
RecruiterTokensDown(d) == DropTables(d, {"recruiter_tokens"})


-----------------------------------------------------------------------------
(* a26110517ed8: turns, answers and evaluations belong to a session, and the *)
(* session keeps the course of the conversation.                             *)

OfSession == {<<"session_id", "interview_sessions">>}

TurnKey == {{"candidate_assessment_id", "turn_number"}}

AnswerCourse ==
    {"session_id", "response_classification", "difficulty_at_time", "nudge_given"}
EvaluationCourse == {"section_summaries", "violation_summary"}
SessionCourse == {"current_question_text", "used_concepts", "violations"}
SessionCounters ==
    {"current_section_index", "current_difficulty", "consecutive_strong_answers",
     "consecutive_weak_answers", "silence_attempt", "nudge_given_this_turn",
     "irrelevant_strike_count", "auto_submit_triggered"}
SessionDefaults == {"status", "current_section", "total_elapsed_secs", "total_pause_secs"}
TurnCourse == {"response_classification", "difficulty_at_time"}

AnswersOfSession(d) ==
    LET added == AddColumns(d, {"answer_evaluations"}, {}, AnswerCourse)
        freed == DropConstraints(added, "answer_evaluations", TurnKey, OfEnrolment)
    IN  AddConstraints(freed, "answer_evaluations", {}, OfSession)

EvaluationsOfSession(d) ==
    LET added == AddColumns(d, {"interview_evaluations"}, EvaluationCourse, {"session_id"})
        freed == DropConstraints(added, "interview_evaluations", {}, OfEnrolment)
    IN  AddConstraints(freed, "interview_evaluations", {{"session_id"}}, OfSession)

(* The foreign key to the enrolment goes and none takes its place. *)
CourseOfSession(d) ==
    LET added == AddColumns(d, {"interview_sessions"}, SessionCourse, SessionCounters)
        bare == DropDefaults(added, [interview_sessions |-> SessionDefaults])
    IN  DropConstraints(bare, "interview_sessions", {}, OfEnrolment)

TurnsOfSession(d) ==
    LET added == AddColumns(d, {"transcript_turns"}, TurnCourse, {"session_id"})
        freed == DropConstraints(added, "transcript_turns", TurnKey, OfEnrolment)
    IN  AddConstraints(freed, "transcript_turns", {}, OfSession)

ModelUpdatesUp(d) ==
    TurnsOfSession(CourseOfSession(EvaluationsOfSession(AnswersOfSession(d))))

(* Its first statement drops a constraint without a name, which is refused. *)
ModelUpdatesDown(d) == [d EXCEPT !.ok = FALSE]

-----------------------------------------------------------------------------
(* bd40680ed7ac: the transcript moves into the session. *)

Course == {"paused_at", "section_progress", "current_question_text", "used_concepts",
           "timer_started_at", "connectivity_events"}
CourseRequired == {"irrelevant_strike_count", "consecutive_strong_answers",
                   "nudge_given_this_turn", "current_difficulty", "auto_submit_triggered",
                   "current_section_index", "consecutive_weak_answers", "silence_attempt",
                   "current_section"}
Skills == {"recommendation_override_reason", "red_flags"}
SkillsRequired == {"problem_solving_score", "problem_solving_evidence",
                   "problem_solving_summary", "communication_score",
                   "communication_evidence", "communication_summary"}

Scores == {"score_evidence", "score_summary"}

TranscriptInSessionUp(d) ==
    LET dropped == DropTables(d, {"answer_evaluations", "transcript_turns"})
        scored == DropColumns(AddColumns(dropped, {"interview_evaluations"}, {}, Scores),
                              {"interview_evaluations"}, Skills \cup SkillsRequired)
    IN  DropColumns(AddColumns(scored, {"interview_sessions"}, {"transcript"}, {}),
                    {"interview_sessions"}, Course \cup CourseRequired)

SessionColumnsBack(d) ==
    DropColumns(AddColumns(d, {"interview_sessions"}, Course, CourseRequired),
                {"interview_sessions"}, {"transcript"})

SkillColumnsBack(d) ==
    DropColumns(AddColumns(d, {"interview_evaluations"}, Skills, SkillsRequired),
                {"interview_evaluations"}, Scores)

TurnsTableBack == Table(
    {"timestamp", "stt_confidence", "turn_type", "concept_tags", "response_classification",
     "difficulty_at_time"},
    {"candidate_assessment_id", "turn_number", "speaker", "text", "section", "session_id"},
    {}, OfSession)

AnswersTableBack == Table(
    {"skill", "signals_present", "signals_missing", "tone_scores", "one_line_feedback",
     "evaluated_at"},
    {"candidate_assessment_id", "turn_number", "section", "question_text", "answer_text",
     "quality", "score", "session_id", "response_classification", "difficulty_at_time",
     "nudge_given"}, {}, OfSession)

TranscriptInSessionDown(d) ==
    CreateTables(SkillColumnsBack(SessionColumnsBack(d)),
        [transcript_turns |-> TurnsTableBack, answer_evaluations |-> AnswersTableBack])

-----------------------------------------------------------------------------
(* 14b3eb7cc7b2: the sections of an evaluation; the checkpoint tables of an  *)
(* earlier LangGraph service go, where they exist.                           *)

CheckpointTables ==
    [t \in {"checkpoint_migrations", "checkpoints", "checkpoint_blobs", "checkpoint_writes"}
        |-> Table({}, {}, {}, {})]

BareDefaults ==
    [assessments |-> {"status"},
     candidate_assessments |-> {"resume_parse_status", "status", "recruiter_decision"},
     csv_upload_logs |-> {"successful_rows", "failed_rows", "overall_status"},
     notification_logs |-> {"delivery_status"},
     recruiters |-> {"is_active"}]

Sections == {"skill_summary", "skill_evidence", "violation_evidence"}
SectionsRequired == {"intro_section_score", "intro_section_summary", "intro_section_evidence",
                     "overall_technical_skill_score", "behavioural_cultural_score",
                     "behavioural_cultural_summary", "behavioural_cultural_evidence",
                     "communication_score", "communication_summary",
                     "communication_evidence", "overall_summary"}
Narrative == {"best_answer", "tone_classification_score", "section_summaries",
              "weakest_answer", "tone_distribution"}
NarrativeRequired == {"behavioural_evidence", "technical_dimension_score",
                      "cultural_fit_score", "cultural_fit_summary", "behavioural_summary",
                      "score_evidence", "score_summary", "cultural_fit_evidence",
                      "overall_narrative", "behavioural_score"}

BareTables(d) == DropDefaults(DropTablesIfExist(d, DOMAIN CheckpointTables), BareDefaults)

EvaluationSectionsUp(d) ==
    DropColumns(AddColumns(d, {"interview_evaluations"}, Sections, SectionsRequired),
                {"interview_evaluations"}, Narrative \cup NarrativeRequired)

SectionsUp(d) == EvaluationSectionsUp(BareTables(d))

NarrativeBack(d) ==
    DropColumns(AddColumns(d, {"interview_evaluations"}, Narrative, NarrativeRequired),
                {"interview_evaluations"}, Sections \cup SectionsRequired)

DefaultsBack(d) == SetDefaults(d, BareDefaults)
CheckpointsBack(d) == CreateTables(d, CheckpointTables)
SectionsDown(d) == CheckpointsBack(DefaultsBack(NarrativeBack(d)))

-----------------------------------------------------------------------------
(* 9f7c2a1e4d6b and f1a2b3c4d5e6: what an evaluation was made from. *)

Lineage == {"section_communication_scores", "raw_overall_score", "violation_penalty",
            "model_recommendation", "recommendation_override_reason", "prompt_version",
            "model_name", "model_provider", "evaluation_schema_version", "transcript_hash",
            "raw_model_output"}

LineageUp(d) == AddColumns(d, {"interview_evaluations"}, Lineage, {})
LineageDown(d) == DropColumns(d, {"interview_evaluations"}, Lineage)
(* Mutant: the new column has no server default. *)
QuestionsRequired(d) == AddColumns(d, {"interview_evaluations"}, {}, {"question_evaluations"})

QuestionsUp(d) == AddColumns(d, {"interview_evaluations"}, {"question_evaluations"}, {})
QuestionsDown(d) == DropColumns(d, {"interview_evaluations"}, {"question_evaluations"})

-----------------------------------------------------------------------------
(* c4a8e7d91f02: one event log instead of two logs; soft deletion. *)

MixinTables == {"assessments", "candidate_assessments", "candidates", "recruiters"}

EventLogTable == Table(
    {"candidate_assessment_id", "recruiter_id", "metadata", "error_message", "duration_ms",
     "created_at", "updated_at", "deleted_at"},
    {"event_name", "source_service", "correlation_id"}, {}, {})

EventLogUp(d) ==
    LET deletable == AddColumns(d, MixinTables, {"deleted_at"}, {})
    IN  DropTables(CreateTables(deletable, [event_logs |-> EventLogTable]),
                   {"csv_upload_logs", "audit_logs"})

(* Mutant: the tables come back as the first revision made them. *)
LogTablesAsFirst == Restrict(LogTables, {"csv_upload_logs", "audit_logs"})

LogTablesBack ==
    [csv_upload_logs |-> Table({"row_results", "uploaded_at"},
        {"recruiter_id", "assessment_id", "total_rows", "successful_rows", "failed_rows",
         "overall_status"}, {},
        {<<"assessment_id", "assessments">>, <<"recruiter_id", "recruiters">>}),
     audit_logs |-> Table(
        {"candidate_assessment_id", "recruiter_id", "metadata", "error_message",
         "duration_ms", "created_at"}, {"service", "event_type", "event_status"}, {},
        {<<"candidate_assessment_id", "candidate_assessments">>,
         <<"recruiter_id", "recruiters">>})]

EventLogDown(d) ==
    DropColumns(DropTables(CreateTables(d, LogTablesBack), {"event_logs"}),
                MixinTables, {"deleted_at"})

-----------------------------------------------------------------------------
(* e8b7c6d5a4f3: reconnection.  The old deadline keeps its value under its   *)
(* new name; the rows take the statuses of the new life cycle.               *)

ReconnectChecks == {"disconnect_counts_nonnegative", "reconnect_deadline_state",
                    "session_token_pair"}
RenamedIn(table, old, new) ==
    Table((table.free \ {old}) \cup {new}, table.must, table.keys, table.refs)
Renamed(d, old, new) ==
    Change(d, /\ "interview_sessions" \in DOMAIN d.tables
              /\ old \in d.tables["interview_sessions"].free
              /\ new \notin Columns(d.tables["interview_sessions"]),
           [t \in {"interview_sessions"} |-> RenamedIn(d.tables[t], old, new)])

InviteColumns == {"invite_consumed", "invite_consumed_at"}
ReconnectColumns ==
    {"session_token", "session_token_expires_at", "disconnect_count",
     "timeout_disconnect_count", "last_disconnected_at", "active_connection_id"}

ReconnectColumnsUp(d) ==
    LET invites == AddColumns(d, {"candidate_assessments"}, InviteColumns, {})
    IN  AddColumns(Renamed(invites, "grace_period_expires_at", "reconnect_deadline"),
                   {"interview_sessions"}, ReconnectColumns, {})

(* Mutant: only the interviews under way count as begun. *)
OnlyRunning(d) ==
    [d EXCEPT !.session.status = IF @ = "PAUSED" THEN "DISCONNECTED" ELSE @,
              !.enrolment.consumed = @ \/ d.enrolment.status = "IN_PROGRESS"]

RowsToReconnect(d) ==
    [d EXCEPT !.session.status = IF @ = "PAUSED" THEN "DISCONNECTED" ELSE @,
              !.enrolment.consumed = @ \/ d.enrolment.status \in Started]

(* What the check of the deadline says of a session. *)
DeadlineFits(session) == session.status \in {"IN_PROGRESS", "TERMINATED"} => ~session.deadline

ReconnectChecksUp(d) ==
    LET keyed == AddConstraints(d, "interview_sessions", {{"session_token"}}, {})
    IN  If(keyed, DeadlineFits(d.session), [keyed EXCEPT !.checks = @ \cup ReconnectChecks])

ReconnectUp(d) == ReconnectChecksUp(RowsToReconnect(ReconnectColumnsUp(d)))

ReconnectDown(d) ==
    LET freed == DropConstraints([d EXCEPT !.checks = @ \ ReconnectChecks],
                                 "interview_sessions", {{"session_token"}}, {})
        rows == [freed EXCEPT !.session.status = IF @ = "DISCONNECTED" THEN "PAUSED" ELSE @]
        sessions == DropColumns(rows, {"interview_sessions"}, ReconnectColumns)
        renamed == Renamed(sessions, "reconnect_deadline", "grace_period_expires_at")
        invites == DropColumns(renamed, {"candidate_assessments"}, InviteColumns)
    IN  [invites EXCEPT !.enrolment.consumed = FALSE]

-----------------------------------------------------------------------------
(* The chain of revisions: Upgrade(r, d) applies revision r to a database at *)
(* r - 1, Downgrade(r, d) takes it back.                                     *)

Latest == 10

Upgrade(r, d) ==
    CASE r = 1 -> InitialSchemaUp(d)
      [] r = 2 -> InterviewTablesUp(d)
      [] r = 3 -> RecruiterTokensUp(d)
      [] r = 4 -> ModelUpdatesUp(d)
      [] r = 5 -> TranscriptInSessionUp(d)
      [] r = 6 -> SectionsUp(d)
      [] r = 7 -> LineageUp(d)
      [] r = 8 -> EventLogUp(d)
      [] r = 9 -> ReconnectUp(d)
      [] r = 10 -> QuestionsUp(d)

Downgrade(r, d) ==
    CASE r = 1 -> InitialSchemaDown(d)
      [] r = 2 -> InterviewTablesDown(d)
      [] r = 3 -> RecruiterTokensDown(d)
      [] r = 4 -> ModelUpdatesDown(d)
      [] r = 5 -> TranscriptInSessionDown(d)
      [] r = 6 -> SectionsDown(d)
      [] r = 7 -> LineageDown(d)
      [] r = 8 -> EventLogDown(d)
      [] r = 9 -> ReconnectDown(d)
      [] r = 10 -> QuestionsDown(d)

(* The schema a fresh database has at each revision. *)
FreshAt == LET f[r \in 0..Latest] == IF r = 0 THEN EmptyDb ELSE Upgrade(r, f[r - 1])
           IN  f

=============================================================================
