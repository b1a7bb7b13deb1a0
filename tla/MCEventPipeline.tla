-------------------------- MODULE MCEventPipeline ---------------------------
(***************************************************************************)
(* Raw events for TLC: both spellings, blank, padded and unreadable times, *)
(* a null that hides a usable time, a blank content, and the status under  *)
(* the name the mapping does not know.                                     *)
(***************************************************************************)
EXTENDS EventPipeline

MCClock == "day 1" :> 1 @@ "day 2" :> 2 @@ "day 3" :> 3

MCPadded == " day 2 " :> "day 2" @@ " " :> ""

MCEvent(date, content, status) ==
    [ProcessDate |-> date, ProcessContent |-> content, TrackingStatus |-> status]

MCRawEvent ==
    { MCEvent("day 1", "text", "20"),
      MCEvent("day 3", "text", "80"),
      MCEvent("day 3", " ", "50"),
      MCEvent("soon", "text", "50"),
      MCEvent("", "text", "20"),
      MCEvent(" day 2 ", "text", "Delivered"),
      [processDate |-> "day 2", processContent |-> "text", trackingStatus |-> "50"],
      [processDate |-> "day 1", processContent |-> "text", trackingStatus |-> "80"],
      [ProcessDate |-> "null", processDate |-> "day 3", ProcessContent |-> "text",
       TrackingStatus |-> "50"],
      [ProcessDate |-> "day 2", ProcessContent |-> "text", status |-> "50"] }
=============================================================================
