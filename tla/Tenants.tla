-------------------------------- MODULE Tenants --------------------------------
(***************************************************************************)
(* The companies of the platform (apps/companies): memberships, sub-admins *)
(* and templates are rows of a company, or of none.                        *)
(***************************************************************************)
CONSTANTS
  Companies,
  NoCompany  \* the foreign key that is null

ASSUME NullsAssumption == NoCompany \notin Companies
================================================================================
