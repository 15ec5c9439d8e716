---------------------------- MODULE MCRoomService ----------------------------
(* Small instances of RoomService for TLC. *)
EXTENDS RoomService

CONSTANTS ann, bot, phone, tablet, robot

(* ann has two devices, and the assistant one. *)
MCOwner == [s \in Socket |-> IF s = robot THEN {bot} ELSE {ann}]

InviteAnn == {{ann}}
AnnModerates == {{ann}}
==============================================================================
