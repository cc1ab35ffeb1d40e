-------------------------- MODULE MCAdminTopicChurn --------------------------
(* Model-checking instances of AdminTopicChurn: admin_churn*.cfg.          *)
EXTENDS AdminTopicChurn

(* A connector that refuses what it should, and two that accept some of    *)
(* what they should refuse.                                                *)
MCLeniencies == {{}, {2}, {1, 300}}
=============================================================================
