--------------------------------- MODULE Schema --------------------------------
(***************************************************************************)
(* The migrations (internal/database/migration) and the tables and columns *)
(* the domain types need (internal/domain).  A table is named by its       *)
(* domain type and stands for the columns it was created with; a column    *)
(* that came later is named with its table.  The index idx_tailnet_id_name *)
(* has had three forms.                                                    *)
(*                                                                         *)
(* does says what happens before the statements that add what is missing:  *)
(* "auto" nothing (AutoMigrate), "index" drops the index, "add" fails when *)
(* the column is there (AddColumn), "orgs" is AutoMigrate followed by a    *)
(* query that fills the column.                                            *)
(***************************************************************************)
EXTENDS Naturals, Sequences

Migration(does, adds) == [does |-> does, adds |-> adds]

NameIndexes == {"idx_name", "idx_name_unique_in_all", "idx_name_unique_in_tailnet"}

m202209070900_initial_schema ==
    Migration("auto", {"ServerConfig", "Tailnet", "Account", "User", "SystemApiKey", "ApiKey",
                       "AuthKey", "Machine", "RegistrationRequest", "AuthenticationRequest"})

m202209251530_add_autoallowips_column == Migration("auto", {"Machine.AutoAllowIPs"})

m202209251532_add_alias_column == Migration("auto", {"Tailnet.Alias"})

m202229251530_add_alias_column_constraint ==
    Migration("auto", {"Tailnet.Name_unique", "Tailnet.Alias_unique"})

m202210040828_add_derpmap_colum == Migration("auto", {"Tailnet.DERPMap"})

m202210070814_add_filesharing_and_servicecollection_columns ==
    Migration("auto", {"Tailnet.ServiceCollectionEnabled", "Tailnet.FileSharingEnabled"})

m202210080700_ssh_action_request ==
    Migration("auto", {"Tailnet.SSHEnabled", "SSHActionRequest"})

m202211031100_add_authorized_column ==
    Migration("auto", {"Tailnet.MachineAuthorizationEnabled", "AuthKey.PreAuthorized",
                       "Machine.Authorized"})

m202212201300_add_user_id_column == Migration("auto", {"RegistrationRequest.UserID"})

m202212270800_machine_indeces ==
    Migration("auto", {"idx_machine_keys", "idx_ipv4", "idx_tailnet_id_id", "idx_name"})

m202312271200_account_last_authenticated == Migration("auto", {"Account.LastAuthenticated"})

(* The index is made again over the name and its index, not the tailnet. *)
m202312290900_machine_indeces == Migration("index", {"idx_name_unique_in_all"})

m202401061400_machine_indeces == Migration("index", {"idx_name_unique_in_tailnet"})

m202402120800_user_last_authenticated == Migration("auto", {"User.LastAuthenticated"})

(* AlterColumn, which can be repeated *)
m202403130830_json_to_text ==
    Migration("auto", {"Tailnet.IAMPolicy_text", "Tailnet.ACLPolicy_text"})

m202502150830_use_hostname == Migration("add", {"Machine.UseOSHostname"})

m202608311000_add_tailnet_organization == Migration("auto", {"Tailnet.Organization"})

TailnetLockOnTailnet == \* Mutant: the tables of the authority are left out
    Migration("auto", {"Tailnet.TailnetLockEnabled", "Machine.NLKey", "Machine.KeySignature"})

m202608312000_tailnet_lock ==
    Migration("auto", {"Tailnet.TailnetLockEnabled", "Machine.NLKey", "Machine.KeySignature",
                       "TKAAum", "TailnetTKAState"})

m202609011200_account_organization == Migration("orgs", {"Account.Organization"})

Migrations ==
    <<m202209070900_initial_schema, m202209251530_add_autoallowips_column,
      m202209251532_add_alias_column, m202229251530_add_alias_column_constraint,
      m202210040828_add_derpmap_colum,
      m202210070814_add_filesharing_and_servicecollection_columns,
      m202210080700_ssh_action_request, m202211031100_add_authorized_column,
      m202212201300_add_user_id_column, m202212270800_machine_indeces,
      m202312271200_account_last_authenticated, m202312290900_machine_indeces,
      m202401061400_machine_indeces, m202402120800_user_last_authenticated,
      m202403130830_json_to_text, m202502150830_use_hostname,
      m202608311000_add_tailnet_organization, m202608312000_tailnet_lock,
      m202609011200_account_organization>>

Done == Len(Migrations)

(* What a migration takes away before it adds. *)
Drops(m) == IF m.does = "index" THEN NameIndexes ELSE {}

(* The schema after the first n migrations. *)
SchemaAt(n) ==
    {x \in UNION {Migrations[i].adds : i \in 1 .. n} :
        \E i \in 1 .. n : /\ x \in Migrations[i].adds
                          /\ \A j \in i + 1 .. n : x \notin Drops(Migrations[j])}

----------------------------------------------------------------------------
(* What the domain types read and write. *)

TailnetColumns ==
    {"Tailnet", "Tailnet.Organization", "Tailnet.IAMPolicy_text", "Tailnet.ACLPolicy_text",
     "Tailnet.DERPMap", "Tailnet.ServiceCollectionEnabled", "Tailnet.FileSharingEnabled",
     "Tailnet.SSHEnabled", "Tailnet.MachineAuthorizationEnabled", "Tailnet.TailnetLockEnabled"}

MachineColumns ==
    {"Machine", "Machine.NLKey", "Machine.KeySignature", "Machine.Authorized",
     "Machine.UseOSHostname", "Machine.AutoAllowIPs"}

AccountColumns == {"Account", "Account.Organization"}
UserColumns == {"User", "User.LastAuthenticated"}
AuthKeyColumns == {"AuthKey", "AuthKey.PreAuthorized"}
RegistrationRequestColumns == {"RegistrationRequest", "RegistrationRequest.UserID"}
OtherTables == {"ServerConfig", "ApiKey", "SystemApiKey", "AuthenticationRequest",
                "SSHActionRequest", "TKAAum", "TailnetTKAState"}

DomainSchema ==
    TailnetColumns \cup MachineColumns \cup AccountColumns \cup UserColumns
      \cup AuthKeyColumns \cup RegistrationRequestColumns \cup OtherTables
================================================================================
