---------------------------- MODULE AccessControl ----------------------------
(* Who may do what: auth_role_allows and the enumerations it is about.  The  *)
(* command line and the server gate every command by it.                     *)

SubscriberActions == {"SUB_ADD", "SUB_UPDATE", "SUB_DELETE", "SUB_SEARCH", "SUB_LIST"}
Actions == SubscriberActions \cup
  {"DB_BACKUP", "DB_RESTORE", "USER_MANAGE", "REPORT_GENERATE", "VIEW_LOGS", "VIEW_STATS"}

Roles == {"ADMIN", "OPERATOR", "VIEWER", "UNKNOWN"}

ReadOnly == {"SUB_SEARCH", "SUB_LIST", "REPORT_GENERATE", "VIEW_STATS"}

\* auth_role_allows, a switch over the roles.
Allowed == [ADMIN    |-> Actions,
            OPERATOR |-> ReadOnly \cup {"SUB_ADD", "SUB_UPDATE"},
            VIEWER   |-> ReadOnly,
            UNKNOWN  |-> {}]
RoleAllows(role, action) == action \in Allowed[role]
=============================================================================
