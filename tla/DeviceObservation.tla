-------------------------- MODULE DeviceObservation --------------------------
(***************************************************************************)
(* What is believed of the GPU that a vLLM campaign is pinned to: the      *)
(* probes of AMD SMI and HIP, their inspection before a server is started, *)
(* and the telemetry before and after a benchmark                          *)
(* (mi300x_observation.py; the check of the window is in vllm_ports.py).   *)
(*                                                                         *)
(* A handle is what AMD SMI knows of one partition.  Metrics are natural   *)
(* numbers, Unknown when they are not reported.                            *)
(***************************************************************************)
EXTENDS Integers, Sequences, FiniteSets, Refusals

\* The handles that a selector names: by the identity that HIP has for the partition,
\* and only when none has it by the physical one, which partitions may share.
SelectDevice(handles, selector) ==
  LET partitions == { h \in handles : h.hip = selector }
      matches    == IF partitions # {} THEN partitions ELSE { h \in handles : h.physical = selector }
  IN  IF Cardinality(matches) = 1 THEN CHOOSE h \in matches : TRUE ELSE Refused

\* _xcc_count: of the one profile that is active, all partitions together.
XccCount(active, profiles) ==
  LET matches == { i \in DOMAIN profiles : profiles[i].index = active }
  IN  IF Cardinality(matches) # 1 THEN Refused
      ELSE LET profile == profiles[CHOOSE i \in matches : TRUE]
           IN  IF Len(profile.xcc) # 1 THEN Refused ELSE profile.xcc[1] * profile.partitions

\* _normalize_mi300x_product_name: bare metal or a virtual function.
ProductName(market) ==
  IF market \in {"AMD Instinct MI300X", "AMD Instinct MI300X VF"} THEN "AMD Instinct MI300X" ELSE Refused

\* The memory partitions of each compute partition.
AllowedMemory(compute) ==
  CASE compute = "SPX" -> {"NPS1"}
    [] compute = "DPX" -> {"NPS1", "NPS2"}
    [] compute \in {"QPX", "CPX"} -> {"NPS1", "NPS4"}
    [] OTHER -> {}

\* collect_mi300x_static with the validation of what it prints.
CollectStatic(handles, selector) ==
  LET h == SelectDevice(handles, selector)
  IN  IF h = Refused THEN Refused
      ELSE IF \/ h.hip = Unknown /\ h.physical # selector
              \/ ProductName(h.market) = Refused \/ h.oam = Unknown
              \/ XccCount(h.active, h.profiles) # 8
              \/ h.memory \notin AllowedMemory(h.compute)
      THEN Refused
      ELSE [ uuid |-> IF h.hip = Unknown THEN h.physical ELSE h.hip, bdf |-> h.bdf, product |-> ProductName(h.market),
             oam |-> h.oam, xcc |-> 8, compute |-> h.compute, memory |-> h.memory, partition |-> h.partition ]

\* _hip_runtime_identity: exposed are the devices that the HIP runtime shows.
HipRuntimeIdentity(exposed) ==
  IF Len(exposed) # 1 THEN Refused
  ELSE IF exposed[1].hip = Unknown THEN Refused ELSE [uuid |-> exposed[1].hip, bdf |-> exposed[1].bdf]

\* collect_mi300x_hip in a process with that selector; inherited are the other
\* variables of device selection that it has.
CollectHip(exposed, selector, inherited) ==
  LET identity == HipRuntimeIdentity(exposed)
  IN  IF identity = Refused THEN Refused
      ELSE IF identity.uuid # selector \/ exposed[1].gfx # "gfx942" \/ inherited # {} THEN Refused
      ELSE [uuid |-> identity.uuid, bdf |-> identity.bdf, gfx |-> exposed[1].gfx, selector |-> selector]

\* collect_mi300x_telemetry: the identity that it reports is the selector itself.
CollectTelemetry(handles, selector) ==
  LET h == SelectDevice(handles, selector)
  IN  IF h = Refused THEN Refused
      ELSE [ uuid |-> selector, bdf |-> h.bdf, compute |-> h.compute, memory |-> h.memory, partition |-> h.partition,
             gfxclk |-> h.gfxclk, uclk |-> h.uclk, power |-> h.power, hotspot |-> h.hotspot,
             throttled |-> h.throttled, powerViolation |-> h.powerViolation,
             thermalViolation |-> h.thermalViolation ]

-----------------------------------------------------------------------------
(* Commands.  A command has the request that it executed, when it started,  *)
(* how long it took, the output that it printed and when that was captured. *)

\* _validate_probe_timestamp, in seconds.
TimestampFits(command) ==
  command.started - 5 <= command.captured /\ command.captured <= command.started + command.duration + 5

\* The output of a probe, of the request that was meant and not older than it.
Answer(command, request) ==
  IF command.request # request \/ ~command.succeeded \/ command.output = Refused \/ ~TimestampFits(command)
  THEN Refused ELSE command.output

\* The preconditions of inspect: the commands that are pinned, the executable that
\* is pinned, and a container exactly when an image is.
InspectionIsBound(config, port) ==
  /\ port.requests = config.requests /\ port.executable = config.executable
  /\ IF config.image = Unknown THEN port.container = Unknown
     ELSE port.container # Unknown /\ port.container.image = config.image /\ port.container.intact

StaticDiffers(config, static) ==
  static # [ uuid |-> config.uuid, bdf |-> config.bdf, product |-> "AMD Instinct MI300X", oam |-> config.oam,
             xcc |-> 8, compute |-> config.compute, memory |-> config.memory, partition |-> config.partition ]

HipDiffers(config, hip) ==
  hip # [uuid |-> config.uuid, bdf |-> config.bdf, gfx |-> "gfx942", selector |-> config.uuid]

\* CommandMI300XInspectionPort.inspect
Inspect(config, port, staticCommand, hipCommand) ==
  LET static == Answer(staticCommand, config.requests[1])
      hip    == Answer(hipCommand, config.requests[2])
  IN  IF ~InspectionIsBound(config, port) THEN Refused
      ELSE IF static = Refused \/ hip = Refused THEN Refused
      ELSE IF StaticDiffers(config, static) \/ HipDiffers(config, hip) THEN Refused
      ELSE [ scope |-> IF config.image # Unknown THEN "container_preflight" ELSE "native_preflight",
             image |-> config.image, static |-> static, hip |-> hip ]

-----------------------------------------------------------------------------
(* The window around a benchmark                                           *)

\* Why a sample at one end of the window makes it unstable.
SampleReasons(config, sample) ==
  { r \in {"device", "partition", "missing", "throttled", "hot", "violation"} :
      CASE r = "device"    -> sample.uuid # config.uuid \/ sample.bdf # config.bdf
        [] r = "partition" -> << sample.compute, sample.memory, sample.partition >>
                                # << config.compute, config.memory, config.partition >>
        [] r = "missing"   -> Unknown \in { sample.gfxclk, sample.uclk, sample.power, sample.hotspot }
                              \/ sample.throttled = Unknown
        [] r = "throttled" -> sample.throttled # FALSE
        [] r = "hot"       -> sample.hotspot # Unknown /\ sample.hotspot > config.maxTemperature
        [] r = "violation" -> \/ sample.powerViolation # Unknown /\ sample.powerViolation > 0
                              \/ sample.thermalViolation # Unknown /\ sample.thermalViolation > 0 }

\* In percent of the higher clock; two clocks that stand still have drifted.
ClockDrifts(config, before, after) ==
  /\ Unknown \notin {before, after}
  /\ LET higher == IF before > after THEN before ELSE after
         lower  == IF before > after THEN after ELSE before
     IN  higher = 0 \/ 100 * (higher - lower) > config.tolerance * higher

\* finish.  The coordinates of the fingerprint are the configuration's own.  One port
\* asks at both ends, for the device of one configuration, so the two commands have
\* the same request_hash, which the code compares as well.
Finish(config, token, phase, request, before, after) ==
  IF \/ token.phase # phase \/ token.request # request
     \/ before = Refused \/ after = Refused
  THEN Refused
  ELSE [ source |-> "observed", request |-> request, capture |-> << before, after, request >>,
         coordinates |-> config.coordinates,
         stable |-> /\ SampleReasons(config, before) = {} /\ SampleReasons(config, after) = {}
                    /\ ~ClockDrifts(config, before.gfxclk, after.gfxclk)
                    /\ ~ClockDrifts(config, before.uclk, after.uclk) ]

\* _validate_environment_capture
CaptureIsValid(config, capture, request, intact) ==
  /\ capture.source = "observed" /\ capture.coordinates = config.coordinates
  /\ capture.request = request /\ intact

-----------------------------------------------------------------------------
(***************************************************************************)
(* Properties.                                                             *)
(***************************************************************************)

\* Of the devices that are there: an inspection succeeds only when one of them, and
\* no other, is the one that is configured, it is the one that HIP computes on, and
\* both were asked now.  A device that is as configured is found, whatever else is
\* there with another identity.
InspectedDeviceIsTheConfigured(config, port, handles, exposed, inherited, staticCommand, hipCommand) ==
  LET seen == Inspect(config, port, [staticCommand EXCEPT !.output = CollectStatic(handles, config.uuid)],
                      [hipCommand EXCEPT !.output = CollectHip(exposed, config.uuid, inherited)])
      own  == { h \in handles : h.hip = config.uuid }
      good(h) == /\ << h.bdf, h.oam, h.compute, h.memory, h.partition, h.gfx >>
                      = << config.bdf, config.oam, config.compute, config.memory, config.partition, "gfx942" >>
                 /\ ProductName(h.market) # Refused /\ XccCount(h.active, h.profiles) = 8
  IN  /\ seen # Refused =>
           /\ Cardinality(own) <= 1 /\ exposed[1].hip = config.uuid /\ exposed[1].bdf = config.bdf
           /\ \E h \in handles : /\ h.hip = config.uuid \/ (own = {} /\ h.physical = config.uuid /\ h.hip = Unknown)
                                 /\ << h.bdf, h.compute, h.memory, h.partition >>
                                      = << config.bdf, config.compute, config.memory, config.partition >>
           /\ staticCommand.captured >= staticCommand.started - 5 /\ hipCommand.captured >= hipCommand.started - 5
           /\ config.image # Unknown => port.container.image = config.image
      /\ (/\ InspectionIsBound(config, port) /\ TimestampFits(staticCommand) /\ TimestampFits(hipCommand)
          /\ staticCommand.succeeded /\ hipCommand.succeeded
          /\ << staticCommand.request, hipCommand.request >> = config.requests
          /\ Cardinality(own) = 1 /\ (\E h \in own : good(h) /\ exposed = << h >>) /\ inherited = {})
         => seen # Refused

\* A window is stable exactly when at both ends the configured partition was cool
\* and unthrottled and its clocks were the same to within the tolerance; which end
\* is the first does not matter.
StableWindowIsStable(config, handlesBefore, handlesAfter) ==
  LET before  == CollectTelemetry(handlesBefore, config.uuid)
      after   == CollectTelemetry(handlesAfter, config.uuid)
      token   == [phase |-> "candidate", request |-> "own"]
      window  == Finish(config, token, "candidate", "own", before, after)
      turned  == Finish(config, token, "candidate", "own", after, before)
      alike(a, b) == a * (100 - config.tolerance) <= b * 100 /\ b * (100 - config.tolerance) <= a * 100
  IN  /\ (window = Refused) = (turned = Refused)
      /\ Finish(config, token, "baseline", "own", before, after) = Refused
      /\ Finish(config, token, "candidate", "other", before, after) = Refused
      /\ window # Refused =>
           /\ CaptureIsValid(config, window, "own", TRUE) /\ ~CaptureIsValid(config, window, "other", TRUE)
           /\ window.stable = turned.stable
           /\ window.stable <=>
                /\ \A s \in {before, after} :
                     /\ s.bdf = config.bdf /\ s.partition = config.partition
                     /\ s.compute = config.compute /\ s.memory = config.memory
                     /\ s.throttled = FALSE /\ s.power # Unknown
                     /\ s.hotspot # Unknown /\ s.hotspot <= config.maxTemperature
                     /\ s.powerViolation \in {Unknown, 0} /\ s.thermalViolation \in {Unknown, 0}
                     /\ s.gfxclk # Unknown /\ s.uclk # Unknown
                /\ before.gfxclk + after.gfxclk > 0 /\ alike(before.gfxclk, after.gfxclk)
                /\ before.uclk + after.uclk > 0 /\ alike(before.uclk, after.uclk)
=============================================================================
