------------------------------ MODULE Channels ------------------------------
(***************************************************************************)
(* The channels a user reads answers on, side by side: a Telegram chat, an *)
(* SSH user and the console.  They share no state.                         *)
(***************************************************************************)
EXTENDS Telegram, Ssh, Console

(* The user of each channel sees every answer, once and whole              *)
(* (telegram.go:147-310, ssh.go:180-330, console.go:80-119).               *)
AnswersAreSeen == AnswersStand /\ AnswersShown /\ PrintedOnce
=============================================================================
