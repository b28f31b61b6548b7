------------------------------ MODULE CommandLine ------------------------------
(***************************************************************************)
(* The command line (internal/cmd): a command lists the tailnets, picks    *)
(* the one its flags or the saved session name, and then calls the server  *)
(* with that tailnet's id.  The edit commands keep an editor open between  *)
(* reading a policy and setting it.  Meanwhile tailnets are renamed,       *)
(* created and deleted, keys and roles go.                                 *)
(***************************************************************************)
EXTENDS AdminReads

CONSTANTS
    Shells,      \* the callers that run commands
    NoCommand

ASSUME ShellAssumption == Shells \subseteq Callers

VARIABLE cmds    \* shell -> the command it is running

cliVars == <<adminVars, cmds>>

(* LoadClientAuth: a person's session was stored with the tailnet it was   *)
(* for (StoreAuthToken); a system admin may have a default tailnet.        *)
LoadClientAuth(p) == IF p.system THEN {0} \cup TailnetIds ELSE {p.user.tailnet}

Session(p) == IF p.system THEN 0 ELSE p.user.id

(* The principal behind the command's token when it is looked at now. *)
Resolved(c) == {p \in Principals : Session(p) = cmds[c].by}

PrepareAny(c, p, saved, name, id) == \* Mutant: the first tailnet listed is taken
    /\ Does("cli")
    /\ cmds[c] = NoCommand /\ calls[c] = NoCall
    /\ \E r \in ListTailnets(p, NoName) :
        cmds' = [cmds EXCEPT ![c] = [by |-> Session(p), saved |-> saved, target |-> r.tailnet,
                                     asked |-> {id} \cup ByName(name), step |-> "ready"]]
    /\ UNCHANGED adminVars

(* prepareCommand: one flag at most, and one unless a tailnet is saved.    *)
(* The first listed tailnet that is the saved one or the one asked for is  *)
(* the target.  asked is history: what the flags named at that time.       *)
prepareCommand(c, p, saved, name, id) ==
    /\ Does("cli")
    /\ cmds[c] = NoCommand /\ calls[c] = NoCall
    /\ saved # 0 \/ name # NoName \/ id # 0
    /\ name = NoName \/ id = 0
    /\ \E r \in ListTailnets(p, NoName) :
        /\ r.tailnet \in {saved, id} \cup ByName(name)
        /\ cmds' = [cmds EXCEPT ![c] = [by |-> Session(p), saved |-> saved, target |-> r.tailnet,
                                        asked |-> {id} \cup ByName(name), step |-> "ready"]]
    /\ UNCHANGED adminVars

(* The command's call reaches the server and is let through. *)
Call(c, step) ==
    /\ cmds[c] # NoCommand /\ cmds[c].step = step /\ calls[c] = NoCall
    /\ cmds[c].target \in Live
    /\ \E p \in Resolved(c) : MayAdminister(p, cmds[c].target)
    /\ cmds' = [cmds EXCEPT ![c].step = "called"]

deleteTailnetCommand(c, force) ==
    /\ Call(c, "ready") /\ cmds[c].by = 0
    /\ DeleteTailnet(c, cmds[c].target, force)

setDERPMap(c) == Call(c, "ready") /\ SetDERPMap(c, cmds[c].target)
resetDERPMap(c) == Call(c, "ready") /\ ResetDERPMap(c, cmds[c].target)
enableFileSharingCommand(c) == Call(c, "ready") /\ EnableFileSharing(c, cmds[c].target)
disableFileSharingCommand(c) == Call(c, "ready") /\ DisableFileSharing(c, cmds[c].target)
enableServiceCollectionCommand(c) ==
    Call(c, "ready") /\ EnableServiceCollection(c, cmds[c].target)
disableServiceCollectionCommand(c) ==
    Call(c, "ready") /\ DisableServiceCollection(c, cmds[c].target)
enableSSHCommand(c) == Call(c, "ready") /\ EnableSSH(c, cmds[c].target)
disableSSHCommand(c) == Call(c, "ready") /\ DisableSSH(c, cmds[c].target)
enableMachineAuthorizationCommand(c) ==
    Call(c, "ready") /\ EnableMachineAuthorization(c, cmds[c].target)
disableMachineAuthorizationCommand(c) ==
    Call(c, "ready") /\ DisableMachineAuthorization(c, cmds[c].target)
setACLConfigCommand(c, v) == Call(c, "ready") /\ SetACLPolicy(c, cmds[c].target, v)
setIAMPolicyCommand(c, v) == Call(c, "ready") /\ SetIAMPolicy(c, cmds[c].target, v)
setDNSConfigCommand(c, v) == Call(c, "ready") /\ SetDNSConfig(c, cmds[c].target, v)

createAuthkeysCommand(c) ==
    /\ Call(c, "ready")
    /\ \E p \in Resolved(c) : CreateAuthKey(c, cmds[c].target, p)

(* The edit commands: a policy is read, edited while others may change it,  *)
(* and set to what the editor left, changed or not.                        *)
OpenEditor(c) ==
    LET t == cmds[c].target IN
    /\ cmds[c] # NoCommand /\ cmds[c].step = "ready" /\ calls[c] = NoCall
    /\ \E p \in Resolved(c) :
        \/ GetACLPolicy(p, t) # {} /\ cmds' = [cmds EXCEPT ![c].step = "acl editor"]
        \/ GetIAMPolicy(p, t) # {} /\ cmds' = [cmds EXCEPT ![c].step = "iam editor"]
    /\ UNCHANGED adminVars

editACLConfigCommand(c, v) == Call(c, "acl editor") /\ SetACLPolicy(c, cmds[c].target, v)
editIAMPolicyCommand(c, v) == Call(c, "iam editor") /\ SetIAMPolicy(c, cmds[c].target, v)

(* The command ends: answered, refused, or given up in the editor. *)
CommandEnds(c) ==
    /\ cmds[c] # NoCommand /\ calls[c] = NoCall
    /\ cmds' = [cmds EXCEPT ![c] = NoCommand]
    /\ UNCHANGED adminVars

Commands(c) ==
    \/ \E p \in Principals : \E saved \in LoadClientAuth(p) :
        \E name \in Names \cup {NoName}, id \in {0} \cup TailnetIds :
            prepareCommand(c, p, saved, name, id)
    \/ \E force \in BOOLEAN : deleteTailnetCommand(c, force)
    \/ setDERPMap(c) \/ resetDERPMap(c)
    \/ enableFileSharingCommand(c) \/ disableFileSharingCommand(c)
    \/ enableServiceCollectionCommand(c) \/ disableServiceCollectionCommand(c)
    \/ enableSSHCommand(c) \/ disableSSHCommand(c)
    \/ enableMachineAuthorizationCommand(c) \/ disableMachineAuthorizationCommand(c)
    \/ \E v \in BOOLEAN : \/ setACLConfigCommand(c, v) \/ setDNSConfigCommand(c, v)
                          \/ editACLConfigCommand(c, v)
    \/ \E v \in load.policies : setIAMPolicyCommand(c, v) \/ editIAMPolicyCommand(c, v)
    \/ createAuthkeysCommand(c)
    \/ OpenEditor(c) \/ CommandEnds(c)

CliInit == AdminInit /\ cmds = [c \in Shells |-> NoCommand]

(* The calls of everybody else; who runs a command makes no other call. *)
OtherCalls ==
    /\ ReadNext
    /\ \A c \in Shells : cmds[c] # NoCommand /\ calls[c] = NoCall => calls'[c] = NoCall
    /\ UNCHANGED cmds

CliNext == OtherCalls \/ \E c \in Shells : Commands(c)
CliSpec == CliInit /\ [][CliNext]_cliVars

----------------------------------------------------------------------------
(* A command changes the tailnet that had the name or the id its flags     *)
(* gave when it was started, and no other, also when tailnets are renamed, *)
(* created and deleted until the server has saved.  A saved tailnet is     *)
(* left out: listed, it may be taken although the flags name another       *)
(* (internal/cmd/target.go:84).                                            *)
CommandsHitTheirTarget ==
    [][\A c \in Shells : \A t \in TailnetIds :
        /\ cmds[c] # NoCommand /\ cmds[c].step = "called" /\ cmds[c].saved = 0
        /\ calls[c] # NoCall /\ calls'[c] = NoCall
        /\ tailnets'[t] # tailnets[t]
        => t \in cmds[c].asked]_cliVars
================================================================================
