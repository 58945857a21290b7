-------------------------------- MODULE Access --------------------------------
(***************************************************************************)
(* Sub-admins: permission rows, role templates, what a sub-admin may do    *)
(* and which rows the lists show to them (apps/sub_admin, and Permission,  *)
(* RoleTemplate and SubAdminProfile of apps/accounts).                     *)
(*                                                                         *)
(* A request is one transaction.  Two of them read rows that they do not   *)
(* lock before they write: the change of a company's default template,     *)
(* which takes the flag from the templates it sees, and the deletion of a  *)
(* template, which asks first who uses it.  Those are two steps.           *)
(***************************************************************************)
EXTENDS Integers, Tenants

CONSTANTS
  Modules,        \* AppModule
  Rights,         \* view, add, edit, delete, export
  Permissions, Templates, SubAdmins,
  StaffOf,        \* StaffOf[k]: the agents with a membership in company k
  CategoriesOf,   \* CategoriesOf[k]: the categories of company k
  Slots,       \* request slots
  Thresholds,     \* the approval thresholds asked for
  NoRow, NoTemplate, NoThreshold, NoCall

\* A row of accounts_role_template.
TemplateRow ==
  [company : Companies \cup {NoCompany}, default : BOOLEAN, permissions : SUBSET Permissions]

ASSUME NoRowAssumption == NoRow \notin TemplateRow

VARIABLES
  permission,  \* permission[p]: [module, rights], rights the can_ columns that are set
  template,    \* template[t]: [company, default, permissions]; NoCompany: platform-wide
  subadmin,    \* subadmin[u]: the SubAdminProfile row
  call,        \* call[r]: what the request in slot r keeps
  overlapped      \* companies whose default was set by overlapping requests, and
               \* not by a lone one since (history)

avars == <<permission, template, subadmin, call, overlapped>>

\* A platform-wide template; nothing in the code writes one, nor changes it.
Platform == [company |-> NoCompany, default |-> FALSE, permissions |-> {}]

AInit ==
  /\ permission = [p \in Permissions |-> NoRow]
  /\ template \in [Templates -> {NoRow, Platform}]
  /\ subadmin = [u \in SubAdmins |-> NoRow]
  /\ call = [r \in Slots |-> NoCall]
  /\ overlapped = {}

Kept == {p \in Permissions : permission[p] # NoRow}
For(S, m) == {p \in S \cap Kept : permission[p].module = m}

-----------------------------------------------------------------------------
\* What a sub-admin may do

\* The rows of the profile's template, and of the profile itself.
TemplateRows(u) ==
  IF subadmin[u].template = NoTemplate THEN {} ELSE template[subadmin[u].template].permissions
CustomRows(u) == subadmin[u].custom

\* Which of several rows comes first when a query gives them no order.
Orderings ==
  {f \in [SUBSET Permissions -> Permissions] : \A S \in SUBSET Permissions : S # {} => f[S] \in S}

\* can_manage_module: the first row of the template for the module, else the
\* first of the profile, else the module is visible.
CanManage(u, m, first) ==
  LET ofTemplate == For(TemplateRows(u), m)
      ofProfile  == For(CustomRows(u), m)
  IN IF ofTemplate # {} THEN "view" \in permission[first[ofTemplate]].rights
     ELSE IF ofProfile # {} THEN "view" \in permission[first[ofProfile]].rights
     ELSE TRUE

\* get_effective_permission_map: setdefault keeps the row of a module that comes
\* first, those of the template before the others.
EffectiveMap(u, first) ==
  [m \in Modules |->
     IF For(TemplateRows(u), m) # {} THEN permission[first[For(TemplateRows(u), m)]].rights
     ELSE IF For(CustomRows(u), m) # {} THEN permission[first[For(CustomRows(u), m)]].rights
     ELSE {"view"}]

\* LoginView.post: what a sub-admin is answered, by get_subadmin_restrictions too.
Login(u, first) ==
  [permissions |-> EffectiveMap(u, first), role_template |-> subadmin[u].template,
   agent_ids |-> subadmin[u].agents, category_ids |-> subadmin[u].categories,
   approval_threshold |-> subadmin[u].threshold]

\* scope_order_queryset and its like: an empty restriction restricts nothing.
Scoped(rows, keyOf, restricted) ==
  IF restricted = {} THEN rows ELSE {x \in rows : keyOf[x] \in restricted}

\* compute_subadmin_approval_threshold
ExceedsThreshold(threshold, amount) ==
  IF threshold = NoThreshold THEN FALSE ELSE amount > threshold

\* order_flow._requires_approval of a sub-admin, in a company that asks for it:
\* a threshold of zero is no threshold.
RequiresApproval(threshold, amount) ==
  IF threshold = NoThreshold \/ threshold = 0 THEN FALSE ELSE amount > threshold

-----------------------------------------------------------------------------
\* Permission rows

Others == <<template, subadmin, call, overlapped>>

\* Faulty variant: a module may get a second row.
ModuleFreeAlways(p, m) == TRUE

\* One row for a module: the unique constraint, and PermissionSerializer's
\* validate_module before a row is created.
ModuleFree(p, m) == For(Kept, m) \subseteq {p}

CreatePermission(p, m, rights) ==
  /\ permission[p] = NoRow /\ ModuleFree(p, m)
  /\ permission' = [permission EXCEPT ![p] = [module |-> m, rights |-> rights]]
  /\ UNCHANGED Others

UpdatePermission(p, m, rights) ==
  /\ permission[p] # NoRow /\ ModuleFree(p, m)
  /\ permission' = [permission EXCEPT ![p] = [module |-> m, rights |-> rights]]
  /\ UNCHANGED Others

\* Its rows in the many-to-many tables go with it.
DeletePermission(p) ==
  /\ permission[p] # NoRow
  /\ permission' = [permission EXCEPT ![p] = NoRow]
  /\ template' = [t \in Templates |->
       IF template[t] = NoRow THEN NoRow
       ELSE [company |-> template[t].company, default |-> template[t].default,
             permissions |-> template[t].permissions \ {p}]]
  /\ subadmin' = [u \in SubAdmins |->
       IF subadmin[u] = NoRow THEN NoRow ELSE [subadmin[u] EXCEPT !.custom = @ \ {p}]]
  /\ UNCHANGED <<call, overlapped>>

-----------------------------------------------------------------------------
\* Role templates

Defaults(k) == {t \in Templates : template[t] # NoRow /\ template[t].company = k
                                  /\ template[t].default}

\* The other requests that are setting the default of the company.
Setting(k) == {q \in Slots : call[q] # NoCall /\ call[q].op = "set" /\ call[q].company = k}

\* Faulty variant: the flag of the other templates stays.
ClearsNever(named, default) == FALSE

\* Only a request that names the flag and sets it takes it from the others.
Clears(named, default) == named /\ default

\* RoleTemplateCreateSerializer.create and RoleTemplateUpdateSerializer.update up
\* to the UPDATE: the row is written, with the flag it had when the request does
\* not name one; a default takes the flag from the defaults it sees.  Slots in
\* flight work on different templates (bound).
SetTemplate(r, t, k, named, default) ==
  LET flag == IF named THEN default ELSE t \in Defaults(k)
  IN /\ call[r] = NoCall
     /\ template[t] # NoRow => template[t].company = k
     /\ \A q \in Slots : call[q] # NoCall => call[q].template # t
     /\ call' = [q \in Slots |->
          IF q = r
          THEN [op |-> "set", template |-> t, company |-> k, alone |-> Setting(k) = {},
                default |-> flag, clears |-> Clears(named, default), seen |-> Defaults(k)]
          ELSE IF q \in Setting(k)
          THEN [op |-> "set", template |-> call[q].template, company |-> k, alone |-> FALSE,
                default |-> call[q].default, clears |-> call[q].clears, seen |-> call[q].seen]
          ELSE call[q]]
     /\ UNCHANGED <<permission, template, subadmin, overlapped>>

\* Its commit; of the permissions asked for, those that still exist are set.
CommitTemplate(r, rows) ==
  LET h == call[r]
  IN /\ h # NoCall /\ h.op = "set" /\ rows \subseteq Kept
     /\ template' = [t \in Templates |->
          IF t = h.template
          THEN [company |-> h.company, default |-> h.default, permissions |-> rows]
          ELSE IF h.clears /\ t \in h.seen /\ t \in Defaults(h.company)
          THEN [company |-> template[t].company, default |-> FALSE,
                permissions |-> template[t].permissions]
          ELSE template[t]]
     /\ overlapped' = IF ~h.alone THEN overlapped \cup {h.company}
                   ELSE IF h.clears THEN overlapped \ {h.company} ELSE overlapped
     /\ call' = [call EXCEPT ![r] = NoCall]
     /\ UNCHANGED <<permission, subadmin>>

Users(t) == {u \in SubAdmins : subadmin[u] # NoRow /\ subadmin[u].template = t}

\* RoleTemplateViewSet.destroy: platform-wide templates are not found, one in
\* use is refused.
CheckUnused(r, t) ==
  /\ call[r] = NoCall
  /\ template[t] # NoRow /\ template[t].company # NoCompany
  /\ \A q \in Slots : call[q] # NoCall => call[q].template # t
  /\ Users(t) = {}
  /\ call' = [call EXCEPT ![r] = [op |-> "delete", template |-> t]]
  /\ UNCHANGED <<permission, template, subadmin, overlapped>>

\* on_delete=SET_NULL for whoever got it in the meantime.
DeleteTemplate(r) ==
  /\ call[r] # NoCall /\ call[r].op = "delete"
  /\ template' = [template EXCEPT ![call[r].template] = NoRow]
  /\ subadmin' = [u \in SubAdmins |->
       IF u \in Users(call[r].template) THEN [subadmin[u] EXCEPT !.template = NoTemplate]
       ELSE subadmin[u]]
  /\ call' = [call EXCEPT ![r] = NoCall]
  /\ UNCHANGED <<permission, overlapped>>

Fail(r) ==
  /\ call[r] # NoCall
  /\ call' = [call EXCEPT ![r] = NoCall]
  /\ UNCHANGED <<permission, template, subadmin, overlapped>>

-----------------------------------------------------------------------------
\* Sub-admins

Visible(t, k) == template[t] # NoRow /\ template[t].company \in {NoCompany, k}

\* SubAdminCreateSerializer.
CreateSubAdmin(u, k, t, threshold) ==
  /\ subadmin[u] = NoRow
  /\ t # NoTemplate => Visible(t, k)
  /\ subadmin' = [subadmin EXCEPT ![u] =
       [company |-> k, template |-> t, custom |-> {}, threshold |-> threshold,
        agents |-> {}, categories |-> {}, active |-> TRUE]]
  /\ UNCHANGED <<permission, template, call, overlapped>>

Changes(u, row) ==
  /\ subadmin[u] # NoRow
  /\ subadmin' = [subadmin EXCEPT ![u] = row]
  /\ UNCHANGED <<permission, template, call, overlapped>>

\* partial_update.  A role template in the request is validated into the row and
\* then looked up by it as an id: the request fails and nothing changes.
SetThreshold(u, threshold) == Changes(u, [subadmin[u] EXCEPT !.threshold = threshold])

Deactivate(u) == Changes(u, [subadmin[u] EXCEPT !.active = FALSE])

\* No endpoint writes custom permissions: an operator does, in the database.
SetCustom(u, rows) == rows \subseteq Kept /\ Changes(u, [subadmin[u] EXCEPT !.custom = rows])

\* restrict_agents, restrict_categories: of the company, and replacing the set.
RestrictAgents(u) ==
  /\ subadmin[u] # NoRow
  /\ \E agents \in SUBSET StaffOf[subadmin[u].company] :
       Changes(u, [subadmin[u] EXCEPT !.agents = agents])

RestrictCategories(u) ==
  /\ subadmin[u] # NoRow
  /\ \E categories \in SUBSET CategoriesOf[subadmin[u].company] :
       Changes(u, [subadmin[u] EXCEPT !.categories = categories])

ANext ==
  \/ \E p \in Permissions :
       \/ \E m \in Modules, rights \in SUBSET Rights :
            CreatePermission(p, m, rights) \/ UpdatePermission(p, m, rights)
       \/ DeletePermission(p)
  \/ \E r \in Slots :
       \/ \E t \in Templates :
            \/ \E k \in Companies, named, default \in BOOLEAN :
                 SetTemplate(r, t, k, named, default)
            \/ CheckUnused(r, t)
       \/ \E rows \in SUBSET Permissions : CommitTemplate(r, rows)
       \/ DeleteTemplate(r) \/ Fail(r)
  \/ \E u \in SubAdmins :
       \/ \E k \in Companies, t \in Templates \cup {NoTemplate}, n \in Thresholds \cup {NoThreshold} :
            CreateSubAdmin(u, k, t, n)
       \/ \E n \in Thresholds \cup {NoThreshold} : SetThreshold(u, n)
       \/ \E rows \in SUBSET Permissions : SetCustom(u, rows)
       \/ RestrictAgents(u) \/ RestrictCategories(u) \/ Deactivate(u)

ASpec == AInit /\ [][ANext]_avars
-----------------------------------------------------------------------------
\* Properties

ATypeOK ==
  /\ permission \in [Permissions -> {NoRow} \cup [module : Modules, rights : SUBSET Rights]]
  /\ template \in [Templates -> {NoRow} \cup TemplateRow]
  /\ subadmin \in [SubAdmins -> {NoRow} \cup
       [company : Companies, template : Templates \cup {NoTemplate}, custom : SUBSET Permissions,
        threshold : Thresholds \cup {NoThreshold}, agents : SUBSET UNION {StaffOf[k] : k \in Companies},
        categories : SUBSET UNION {CategoriesOf[k] : k \in Companies}, active : BOOLEAN]]
  /\ call \in [Slots -> {NoCall}
       \cup [op : {"set"}, template : Templates, company : Companies, alone : BOOLEAN,
             default : BOOLEAN, clears : BOOLEAN, seen : SUBSET Templates]
       \cup [op : {"delete"}, template : Templates]]
  /\ overlapped \subseteq Companies

\* "Precedence matches can_manage_module": the permission map that a login
\* answers and the check of each request agree for every sub-admin and module,
\* whichever order the two queries get their rows in, through edits and deletions
\* of permissions, templates and overrides.
GrantsAgree ==
  \A u \in SubAdmins, m \in Modules : subadmin[u] # NoRow =>
    \A f, g \in Orderings : CanManage(u, m, f) <=> "view" \in Login(u, g).permissions[m]

\* A company has at most one default template, except since overlapping changes
\* of its templates; the next lone change of the default repairs it.
OneDefault ==
  \A k \in Companies : k \notin overlapped => \A s, t \in Defaults(k) : s = t
===============================================================================
