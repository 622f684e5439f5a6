------------------------------ MODULE OrmModels ------------------------------
(***************************************************************************)
(* The tables as the SQLAlchemy models of src/data/models/postgres declare *)
(* them: what the running service reads and inserts.  Here the first set   *)
(* of a table holds the columns an INSERT of the service may leave to the  *)
(* database and the second those it always supplies (no server default, or *)
(* a default of the model).                                                *)
(***************************************************************************)
EXTENDS Migrations

IBotMixin == {"created_at", "updated_at", "deleted_at"}

Recruiter == Table(IBotMixin,
    {"full_name", "email", "hashed_password", "company_name", "is_active"},
    {{"email"}}, {})

Candidate == Table(IBotMixin, {"full_name", "email", "created_by"},
    {{"email"}}, {<<"created_by", "recruiters">>})

Assessment == Table(
    IBotMixin \cup {"jd_file_path", "jd_analysis", "focus_areas", "interview_plan"},
    {"recruiter_id", "title", "role_name", "jd_text", "interview_duration_mins",
     "window_start", "window_end", "status"}, {}, {<<"recruiter_id", "recruiters">>})

CandidateAssessment == Table(
    IBotMixin \cup {"resume_parsed", "invite_consumed_at", "interview_started_at",
                    "interview_ended_at", "recruiter_feedback"},
    {"candidate_id", "assessment_id", "resume_file_path", "resume_parse_status",
     "invitation_token", "invite_consumed", "status", "recruiter_decision",
     "reminders_sent"},
    {{"candidate_id", "assessment_id"}, {"invitation_token"}},
    {<<"candidate_id", "candidates">>, <<"assessment_id", "assessments">>})

InterviewSession == Table(
    {"session_token", "session_token_expires_at", "last_disconnected_at",
     "reconnect_deadline", "active_connection_id", "created_at", "last_updated_at"},
    {"candidate_assessment_id", "transcript", "violations", "status", "total_elapsed_secs",
     "total_pause_secs", "disconnect_count", "timeout_disconnect_count"},
    {{"candidate_assessment_id"}, {"session_token"}}, {})

InterviewEvaluation == Table(
    {"violation_summary", "violation_evidence", "recommendation_override_reason",
     "rank_in_assessment", "percentile_in_assessment", "total_candidates_evaluated",
     "generated_at"},
    {"candidate_assessment_id", "session_id", "intro_section_score",
     "intro_section_summary", "intro_section_evidence", "skill_scores",
     "overall_technical_skill_score", "skill_summary", "skill_evidence",
     "question_evaluations", "behavioural_cultural_score", "behavioural_cultural_summary",
     "behavioural_cultural_evidence", "communication_score", "communication_summary",
     "communication_evidence", "section_communication_scores", "raw_overall_score",
     "violation_penalty", "overall_score", "hiring_recommendation", "model_recommendation",
     "overall_summary", "recommendation_reasoning", "strengths", "concerns",
     "prompt_version", "model_name", "model_provider", "evaluation_schema_version",
     "transcript_hash", "raw_model_output"},
    {{"candidate_assessment_id"}, {"session_id"}}, OfSession)

EventLog == Table(
    IBotMixin \cup {"candidate_assessment_id", "recruiter_id", "error_message",
                    "duration_ms"},
    {"event_name", "source_service", "correlation_id", "metadata"}, {}, {})

NotificationLog == Table({"sent_at", "error_message"},
    {"candidate_assessment_id", "notification_type", "recipient_email", "delivery_status"},
    {}, OfEnrolment)

RecruiterToken == Table({"created_at", "last_used_at", "user_agent", "ip_address"},
    {"recruiter_id", "token_hash", "expires_at", "is_revoked"}, {{"token_hash"}},
    {<<"recruiter_id", "recruiters">>})

Models ==
    [recruiters |-> Recruiter, candidates |-> Candidate, assessments |-> Assessment,
     candidate_assessments |-> CandidateAssessment, interview_sessions |-> InterviewSession,
     interview_evaluations |-> InterviewEvaluation, event_logs |-> EventLog,
     notification_logs |-> NotificationLog, recruiter_tokens |-> RecruiterToken]

(* Every SELECT of the models finds its columns, no INSERT of theirs lacks a *)
(* required one, and the keys and references are those they count on.        *)
Serves(tables) ==
    /\ DOMAIN Models \subseteq DOMAIN tables
    /\ \A t \in DOMAIN Models :
         /\ Columns(tables[t]) = Columns(Models[t])
         /\ tables[t].must \subseteq Models[t].must
         /\ tables[t].keys = Models[t].keys
         /\ tables[t].refs = Models[t].refs

=============================================================================
