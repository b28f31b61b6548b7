---------------------------- MODULE CommandLineProofs ----------------------------
(***************************************************************************)
(* Theorems about the command line, for any number of shells and tailnets. *)
(* A command is a call of the server, so what TailnetAdminProofs shows of  *)
(* the calls holds with commands running (CommandsAreCalls); and the call  *)
(* a command waits for is on the command's target (CommandOK).             *)
(***************************************************************************)
EXTENDS CommandLine, TailnetAdminProofs

(* A command is a call that the server would have taken from anybody: the  *)
(* command line adds no behaviour (internal/cmd).                          *)
LEMMA CommandIsCall ==
    ASSUME NEW c \in Shells, Commands(c)
    PROVE  ReadNext \/ UNCHANGED adminVars
<1>. DEFINE t == cmds[c].target
<1>0. c \in Callers
  BY ShellAssumption, Zenon
<1>1. CASE \E step : Call(c, step) /\ \E force \in BOOLEAN : DeleteTailnet(c, t, force)
  <2>1. t \in TailnetIds
    BY <1>1, Zenon DEF Call, Live
  <2>. QED
    BY <1>0, <1>1, <2>1, Zenon DEF ReadNext, AdminNext
<1>2. CASE \E step : /\ Call(c, step)
                     /\ \/ SetDERPMap(c, t) \/ ResetDERPMap(c, t)
                        \/ EnableFileSharing(c, t) \/ DisableFileSharing(c, t)
                        \/ EnableServiceCollection(c, t) \/ DisableServiceCollection(c, t)
                        \/ EnableSSH(c, t) \/ DisableSSH(c, t)
                        \/ EnableMachineAuthorization(c, t)
                        \/ DisableMachineAuthorization(c, t)
                        \/ \E v \in BOOLEAN : SetACLPolicy(c, t, v) \/ SetDNSConfig(c, t, v)
                        \/ \E p \in load.policies : SetIAMPolicy(c, t, p)
  <2>1. t \in Live
    BY <1>2, Zenon DEF Call
  <2>2. Edits(c)
    BY <1>2, <2>1, Zenon DEF Edits
  <2>. QED
    BY <1>0, <2>2, Zenon DEF ReadNext, AdminNext
<1>3. CASE Call(c, "ready") /\ \E p \in Resolved(c) : CreateAuthKey(c, t, p)
  <2>1. t \in Live /\ Resolved(c) \subseteq Principals
    BY <1>3, Zenon DEF Call, Resolved
  <2>. QED
    BY <1>0, <1>3, <2>1, Zenon DEF ReadNext, AdminNext
<1>5. CASE \/ \E p \in Principals : \E saved \in LoadClientAuth(p) :
               \E name \in Names \cup {NoName}, id \in {0} \cup TailnetIds :
                   prepareCommand(c, p, saved, name, id)
           \/ OpenEditor(c) \/ CommandEnds(c)
  BY <1>5, Zenon DEF prepareCommand, OpenEditor, CommandEnds
<1>6. CASE \/ \E force \in BOOLEAN : deleteTailnetCommand(c, force)
           \/ createAuthkeysCommand(c)
  BY <1>6, <1>1, <1>3, Zenon DEF deleteTailnetCommand, createAuthkeysCommand
<1>7. CASE \/ setDERPMap(c) \/ resetDERPMap(c)
           \/ enableFileSharingCommand(c) \/ disableFileSharingCommand(c)
           \/ enableServiceCollectionCommand(c) \/ disableServiceCollectionCommand(c)
           \/ enableSSHCommand(c) \/ disableSSHCommand(c)
           \/ enableMachineAuthorizationCommand(c) \/ disableMachineAuthorizationCommand(c)
           \/ \E v \in BOOLEAN : \/ setACLConfigCommand(c, v) \/ setDNSConfigCommand(c, v)
                                 \/ editACLConfigCommand(c, v)
           \/ \E v \in load.policies : setIAMPolicyCommand(c, v) \/ editIAMPolicyCommand(c, v)
  BY <1>7, <1>2, Zenon DEF setDERPMap, resetDERPMap, enableFileSharingCommand,
     disableFileSharingCommand, enableServiceCollectionCommand,
     disableServiceCollectionCommand, enableSSHCommand, disableSSHCommand,
     enableMachineAuthorizationCommand, disableMachineAuthorizationCommand,
     setACLConfigCommand, setDNSConfigCommand, setIAMPolicyCommand, editIAMPolicyCommand,
     editACLConfigCommand
<1>. QED
  BY <1>5, <1>6, <1>7, Zenon DEF Commands

(* A step with commands is a step of the calls alone, or none. *)
LEMMA CliStep == [CliNext]_cliVars => [ReadNext]_adminVars
<1>1. ASSUME UNCHANGED cliVars
      PROVE  UNCHANGED adminVars
  BY <1>1, Zenon DEF cliVars
<1>2. ASSUME CliNext
      PROVE  ReadNext \/ UNCHANGED adminVars
  BY <1>2, CommandIsCall, Zenon DEF CliNext, OtherCalls
<1>. QED
  BY <1>1, <1>2, Zenon

(* The command line adds nothing to what the server can be asked: what is  *)
(* true of the server's calls is true with any commands running            *)
(* (internal/cmd against internal/service).                                *)
THEOREM CommandsAreCalls == CliSpec => ReadSpec
  BY CliStep, PTL DEF CliSpec, ReadSpec, CliInit

----------------------------------------------------------------------------
(* Commands *)

CommandFields == {"by", "saved", "target", "asked", "step"}

(* What holds of a command, and of the call it is waiting for. *)
CommandOK(m, r) ==
    /\ DOMAIN m = CommandFields
    /\ m.step \in {"ready", "acl editor", "iam editor", "called"}
    /\ m.saved = 0 => m.target \in m.asked
    /\ r # NoCall => m.step = "called" /\ r.op \in {"edit", "delete", "authkey"} /\ r.t = m.target

CliInv ==
    /\ cmds = [c \in Shells |-> cmds[c]]
    /\ \A c \in Shells : cmds[c] # NoCommand => CommandOK(cmds[c], calls[c])

(* A command's call is a call on its target. *)
LEMMA CommandCalls ==
    ASSUME AdminInv, NEW c \in Shells, NEW step, Call(c, step), NEW t, t = cmds[c].target,
           \/ \E force \in BOOLEAN : DeleteTailnet(c, t, force)
           \/ \E p \in Resolved(c) : CreateAuthKey(c, t, p)
           \/ \E v : SetACLPolicy(c, t, v) \/ SetDNSConfig(c, t, v) \/ SetIAMPolicy(c, t, v)
           \/ SetDERPMap(c, t) \/ ResetDERPMap(c, t)
           \/ EnableFileSharing(c, t) \/ DisableFileSharing(c, t)
           \/ EnableServiceCollection(c, t) \/ DisableServiceCollection(c, t)
           \/ EnableSSH(c, t) \/ DisableSSH(c, t)
           \/ EnableMachineAuthorization(c, t) \/ DisableMachineAuthorization(c, t)
    PROVE  \E r : /\ calls' = [calls EXCEPT ![c] = r]
                  /\ r.op \in {"edit", "delete", "authkey"} /\ r.t = t
<1>1. ASSUME NEW new, Edit(c, t, new)
      PROVE  \E r : calls' = [calls EXCEPT ![c] = r] /\ r.op = "edit" /\ r.t = t
  <2>1. PICK r : r = [op |-> "edit", t |-> t, old |-> tailnets[t], new |-> new]
    BY Zenon
  <2>2. r.op = "edit" /\ r.t = t
    BY <2>1, Zenon
  <2>. QED
    BY <1>1, <2>1, <2>2, Zenon DEF Edit, Begin
<1>2. ASSUME NEW force \in BOOLEAN, DeleteTailnet(c, t, force)
      PROVE  \E r : calls' = [calls EXCEPT ![c] = r] /\ r.op = "delete" /\ r.t = t
  <2>1. PICK r : r = [op |-> "delete", t |-> t, force |-> force, upto |-> lastId]
    BY Zenon
  <2>2. r.op = "delete" /\ r.t = t
    BY <2>1, Zenon
  <2>. QED
    BY <1>2, <2>1, <2>2, Zenon DEF DeleteTailnet, Begin
<1>3. ASSUME NEW p \in Resolved(c), CreateAuthKey(c, t, p)
      PROVE  \E r : calls' = [calls EXCEPT ![c] = r] /\ r.op = "authkey" /\ r.t = t
  <2>1. PICK id : calls' = [calls EXCEPT ![c] = [op |-> "authkey", t |-> t, user |-> id]]
    BY <1>3, Zenon DEF CreateAuthKey, Begin
  <2>2. PICK r : r = [op |-> "authkey", t |-> t, user |-> id]
    BY Zenon
  <2>3. r.op = "authkey" /\ r.t = t
    BY <2>2, Zenon
  <2>. QED
    BY <2>1, <2>2, <2>3, Zenon
<1>4. ASSUME ~\E force \in BOOLEAN : DeleteTailnet(c, t, force),
             ~\E p \in Resolved(c) : CreateAuthKey(c, t, p)
      PROVE  \E new : Edit(c, t, new)
  BY <1>4, Zenon DEF SetACLPolicy, SetDNSConfig, SetIAMPolicy, SetDERPMap, ResetDERPMap,
     EnableFileSharing, DisableFileSharing, EnableServiceCollection,
     DisableServiceCollection, EnableSSH, DisableSSH, EnableMachineAuthorization,
     DisableMachineAuthorization, SetField
<1>. QED
  BY <1>1, <1>2, <1>3, <1>4, Zenon

(* Starting a command: the target is one of the tailnets listed. *)
LEMMA PrepareTargets ==
    ASSUME AdminInv, CliInv, NEW c \in Shells, NEW p \in Principals, NEW saved, NEW name, NEW id,
           prepareCommand(c, p, saved, name, id)
    PROVE  CliInv'
<1>1. PICK r \in ListTailnets(p, NoName) :
          /\ r.tailnet \in {saved, id} \cup ByName(name)
          /\ cmds' = [cmds EXCEPT ![c] = [by |-> Session(p), saved |-> saved,
                          target |-> r.tailnet, asked |-> {id} \cup ByName(name),
                          step |-> "ready"]]
  BY Zenon DEF prepareCommand
<1>2. r.tailnet \in TailnetIds
  BY DEF ListTailnets, Live
<1>3. PICK m : m = [by |-> Session(p), saved |-> saved, target |-> r.tailnet,
                    asked |-> {id} \cup ByName(name), step |-> "ready"]
  BY Zenon
<1>4. /\ DOMAIN m = CommandFields /\ m.step = "ready" /\ m.saved = saved
      /\ m.target = r.tailnet /\ m.asked = {id} \cup ByName(name)
  BY <1>3, Zenon DEF CommandFields
<1>5. m.saved = 0 => m.target \in m.asked
  BY <1>1, <1>2, <1>4, AdminAssumption DEF TailnetIds
<1>6. calls[c] = NoCall /\ calls' = calls
  BY Zenon DEF prepareCommand, adminVars
<1>7. CommandOK(m, calls[c])
  BY <1>4, <1>5, <1>6, Zenon DEF CommandOK
<1>8. cmds' = [d \in Shells |-> IF d = c THEN m ELSE cmds[d]]
  BY <1>1, <1>3, Zenon DEF CliInv
<1>. QED
  BY <1>6, <1>7, <1>8, Zenon DEF CliInv

(* A command's steps keep its call on its target. *)
LEMMA CommandStepKeeps ==
    ASSUME AdminInv, CliInv, NEW c \in Shells, Commands(c)
    PROVE  CliInv'
<1>0. /\ cmds = [d \in Shells |-> cmds[d]] /\ calls = [d \in Callers |-> calls[d]]
      /\ Shells \subseteq Callers
  BY ShellAssumption, Zenon DEF CliInv, AdminInv, CallsOK
<1>1. ASSUME NEW step, Call(c, step), NEW r, calls' = [calls EXCEPT ![c] = r],
             r.op \in {"edit", "delete", "authkey"}, r.t = cmds[c].target
      PROVE  CliInv'
  <2>1. PICK m, n : m = cmds[c] /\ n = [cmds[c] EXCEPT !.step = "called"]
    BY Zenon
  <2>2. CommandOK(m, calls[c]) /\ r.t = m.target
    BY <1>1, <2>1, Zenon DEF Call, CliInv
  <2>3. /\ DOMAIN n = CommandFields /\ n.step = "called" /\ n.saved = m.saved
        /\ n.target = m.target /\ n.asked = m.asked
    BY <2>1, <2>2, Zenon DEF CommandOK, CommandFields
  <2>4. CommandOK(n, r)
    BY <1>1, <2>2, <2>3, Zenon DEF CommandOK
  <2>5. /\ cmds' = [d \in Shells |-> IF d = c THEN n ELSE cmds[d]]
        /\ \A d \in Shells : calls'[d] = IF d = c THEN r ELSE calls[d]
    BY <1>0, <1>1, <2>1, Zenon DEF Call
  <2>. QED
    BY <2>4, <2>5, Zenon DEF CliInv
<1>2. PICK t : t = cmds[c].target
  BY Zenon
<1>3. CASE \E step :
          /\ Call(c, step)
          /\ \/ \E force \in BOOLEAN : DeleteTailnet(c, t, force)
             \/ \E p \in Resolved(c) : CreateAuthKey(c, t, p)
             \/ \E v : SetACLPolicy(c, t, v) \/ SetDNSConfig(c, t, v) \/ SetIAMPolicy(c, t, v)
             \/ SetDERPMap(c, t) \/ ResetDERPMap(c, t)
             \/ EnableFileSharing(c, t) \/ DisableFileSharing(c, t)
             \/ EnableServiceCollection(c, t) \/ DisableServiceCollection(c, t)
             \/ EnableSSH(c, t) \/ DisableSSH(c, t)
             \/ EnableMachineAuthorization(c, t) \/ DisableMachineAuthorization(c, t)
  BY <1>1, <1>2, <1>3, CommandCalls, Zenon
<1>4. CASE \E p \in Principals : \E saved \in LoadClientAuth(p) :
               \E name \in Names \cup {NoName}, id \in {0} \cup TailnetIds :
                   prepareCommand(c, p, saved, name, id)
  BY <1>4, PrepareTargets, Zenon
<1>5. CASE OpenEditor(c)
  <2>1. PICK m, x : /\ m = cmds[c] /\ x \in {"acl editor", "iam editor"}
                    /\ cmds' = [cmds EXCEPT ![c] = [m EXCEPT !.step = x]]
    BY <1>0, <1>5, Zenon DEF OpenEditor
  <2>2. PICK n : n = [m EXCEPT !.step = x]
    BY Zenon
  <2>3. CommandOK(m, calls[c]) /\ calls[c] = NoCall /\ calls' = calls
    BY <1>5, <2>1, Zenon DEF OpenEditor, CliInv, adminVars
  <2>4. /\ DOMAIN n = CommandFields /\ n.step = x /\ n.saved = m.saved
        /\ n.target = m.target /\ n.asked = m.asked
    BY <2>2, <2>3, Zenon DEF CommandOK, CommandFields
  <2>5. CommandOK(n, calls[c])
    BY <2>1, <2>3, <2>4, Zenon DEF CommandOK
  <2>6. cmds' = [d \in Shells |-> IF d = c THEN n ELSE cmds[d]]
    BY <1>0, <2>1, <2>2, Zenon
  <2>. QED
    BY <2>3, <2>5, <2>6, Zenon DEF CliInv
<1>6. CASE CommandEnds(c)
  BY <1>0, <1>6, Zenon DEF CommandEnds, CliInv, adminVars
<1>7. CASE \/ \E force \in BOOLEAN : deleteTailnetCommand(c, force)
           \/ setDERPMap(c) \/ resetDERPMap(c)
           \/ enableFileSharingCommand(c) \/ disableFileSharingCommand(c)
           \/ enableServiceCollectionCommand(c) \/ disableServiceCollectionCommand(c)
           \/ enableSSHCommand(c) \/ disableSSHCommand(c)
           \/ enableMachineAuthorizationCommand(c) \/ disableMachineAuthorizationCommand(c)
           \/ \E v \in BOOLEAN : \/ setACLConfigCommand(c, v) \/ setDNSConfigCommand(c, v)
                                 \/ editACLConfigCommand(c, v)
           \/ \E v \in load.policies : setIAMPolicyCommand(c, v) \/ editIAMPolicyCommand(c, v)
           \/ createAuthkeysCommand(c)
  BY <1>2, <1>3, <1>7, Zenon DEF deleteTailnetCommand, setDERPMap, resetDERPMap,
     enableFileSharingCommand, disableFileSharingCommand, enableServiceCollectionCommand,
     disableServiceCollectionCommand, enableSSHCommand, disableSSHCommand,
     enableMachineAuthorizationCommand, disableMachineAuthorizationCommand,
     setACLConfigCommand, setDNSConfigCommand, setIAMPolicyCommand, editIAMPolicyCommand,
     createAuthkeysCommand, editACLConfigCommand
<1>. QED
  BY <1>4, <1>5, <1>6, <1>7, Zenon DEF Commands

(* What others call keeps the commands' calls on their targets. *)
LEMMA OtherCallsKeep ==
    ASSUME AdminInv, CliInv, OtherCalls
    PROVE  CliInv'
<1>. SUFFICES ASSUME NEW c \in Shells, cmds[c] # NoCommand
              PROVE  CommandOK(cmds[c], calls'[c])
  BY Zenon DEF CliInv, OtherCalls
<1>1. CommandOK(cmds[c], calls[c]) /\ c \in Callers
  BY ShellAssumption, Zenon DEF CliInv
<1>2. CASE calls[c] = NoCall
  BY <1>1, <1>2, Zenon DEF OtherCalls, CommandOK
<1>3. CASE calls[c] # NoCall /\ calls'[c] # calls[c]
  <2>1. calls[c].op \notin {"login", "revoke"}
    BY <1>1, <1>3 DEF CommandOK
  <2>2. Ends(c)
    BY <1>1, <1>3, <2>1, CallEnds, Zenon DEF OtherCalls
  <2>3. calls' = [calls EXCEPT ![c] = NoCall]
    BY <2>2, Zenon DEF Ends, CreateTailnetSave, EditSave, DeleteTailnetCommit, RevokeAccountCommit,
       CreateAuthKeySave, Read, Finish
  <2>4. calls'[c] = NoCall
    BY <1>1, <2>3, Zenon DEF AdminInv, CallsOK
  <2>. QED
    BY <1>1, <2>4, Zenon DEF CommandOK
<1>. QED
  BY <1>1, <1>2, <1>3, Zenon

(* The commands' invariant holds of every reachable state. *)
LEMMA CliInvHolds == CliSpec => []CliInv
<1>1. CliInit => CliInv
  BY Zenon DEF CliInit, CliInv
<1>2. AdminInv /\ CliInv /\ [CliNext]_cliVars => CliInv'
  <2>1. ASSUME CliInv, UNCHANGED cliVars
        PROVE  CliInv'
    BY <2>1, Zenon DEF cliVars, adminVars, CliInv
  <2>. QED
    BY <2>1, CommandStepKeeps, OtherCallsKeep, Zenon DEF CliNext
<1>. QED
  BY <1>1, <1>2, AdminInvHolds, CommandsAreCalls, PTL DEF CliSpec

(* A command changes the tailnet its flags named when it started and no    *)
(* other, for any number of shells, tailnets and calls of others between   *)
(* (internal/cmd/target.go).                                               *)
THEOREM CommandsStayOnTarget == CliSpec => CommandsHitTheirTarget
<1>1. AdminInv /\ CliInv /\ [CliNext]_cliVars =>
        [\A c \in Shells : \A t \in TailnetIds :
            /\ cmds[c] # NoCommand /\ cmds[c].step = "called" /\ cmds[c].saved = 0
            /\ calls[c] # NoCall /\ calls'[c] = NoCall
            /\ tailnets'[t] # tailnets[t]
            => t \in cmds[c].asked]_cliVars
  <2>. SUFFICES ASSUME AdminInv, CliInv, CliNext, NEW c \in Shells, NEW t \in TailnetIds,
                       cmds[c] # NoCommand, cmds[c].step = "called", cmds[c].saved = 0,
                       calls[c] # NoCall, calls'[c] = NoCall, tailnets'[t] # tailnets[t]
                PROVE  t \in cmds[c].asked
    BY Zenon
  <2>1. CommandOK(cmds[c], calls[c]) /\ c \in Callers
    BY ShellAssumption, Zenon DEF CliInv
  <2>2. ReadNext
    BY CommandIsCall, Zenon DEF CliNext, OtherCalls, adminVars
  <2>3. Ends(c)
    <3>1. calls[c].op \notin {"login", "revoke"}
      BY <2>1 DEF CommandOK
    <3>. QED
      BY <2>1, <2>2, <3>1, CallEnds, Zenon
  <2>4. calls[c].t = t
    <3>. tailnets = [s \in TailnetIds |-> tailnets[s]]
      BY Zenon DEF AdminInv, RowsOK
    <3>. QED
      BY <2>3, Zenon DEF Ends, CreateTailnetSave, EditSave, SaveTailnet, DeleteTailnetCommit,
         RevokeAccountCommit, CreateAuthKeySave, Read
  <2>. QED
    BY <2>1, <2>4, Zenon DEF CommandOK
<1>. QED
  BY <1>1, AdminInvHolds, CliInvHolds, CommandsAreCalls, PTL DEF CliSpec, CommandsHitTheirTarget
==================================================================================
