---------------------------- MODULE DeviceCalls ----------------------------
(***************************************************************************)
(* The two halves of the device interface: what each method of             *)
(* SoapyRemoteDevice sends and awaits (client/Settings.cpp,                *)
(* client/Streaming.cpp), and what the handler does with each call         *)
(* (server/ClientHandler.cpp), section by section as in the code.          *)
(*                                                                         *)
(* A parameter is a name and a type: the name says which parameter of the  *)
(* device's method it is.  A call of the client is                         *)
(*   [method, code, sends, replies]                                        *)
(* with the parameters in the order they are packed and, for each reply    *)
(* message it reads, the types of the values in it (none: a VOID).  A case *)
(* of the handler is                                                       *)
(*   [code, reads, method, packs, feature]                                 *)
(* where feature names the SOAPY_SDR_API_HAS_... without which the device  *)
(* is not called and a default goes back, or is "always".  Overloads of a  *)
(* method are told apart by the parameter that they add.                   *)
(***************************************************************************)
EXTENDS Sequences

Call(method, code, sends, types) ==
  [method |-> method, code |-> code, sends |-> sends, replies |-> << types >>]

CaseIf(feature, code, reads, method, types) ==
  [code |-> code, reads |-> reads, method |-> method, packs |-> << types >>,
   feature |-> feature]
Case(code, reads, method, types) == CaseIf("always", code, reads, method, types)

Direction == << "direction", "char" >>
Chan      == << Direction, << "channel", "size" >> >>
Name      == << << "name", "string" >> >>
Automatic == << << "automatic", "bool" >> >>
Value     == << << "value", "double" >> >>
Args      == << << "args", "kwargs" >> >>
Source    == << << "source", "string" >> >>
What      == << << "what", "string" >> >>
TimeNs    == << << "timeNs", "long" >> >>
Addr      == << << "addr", "unsigned" >> >>
Reg       == << << "value", "unsigned" >> >>
Key       == << << "key", "string" >> >>
Setting   == << << "value", "string" >> >>
Bank      == << << "bank", "string" >> >>
Mask      == << << "mask", "unsigned" >> >>
Dir       == << << "dir", "unsigned" >> >>
BusAddr   == << << "addr", "int" >> >>
Data      == << << "data", "string" >> >>
Which     == << << "which", "string" >> >>
StreamId  == << << "streamId", "int" >> >>
Flags     == << << "flags", "int" >> >>
Format    == << << "format", "string" >> >>
Channels  == << << "channels", "sizes" >> >>
Num(name)  == << << name, "int" >> >>
Size(name) == << << name, "size" >> >>
Dbl(name)  == << << name, "double" >> >>
Cplx(name) == << << name, "complex" >> >>
Str(name)  == << << name, "string" >> >>
-----------------------------------------------------------------------------
(* The client.                                                             *)

FactoryCalls == {
  Call("enumerate",   "FIND",          Args,   << "kwargsList" >>),
  Call("getServerID", "GET_SERVER_ID", << >>,  << "string" >>)}

MakeCalls == {
  Call("make",   "MAKE",   Args,  << >>),
  Call("unmake", "UNMAKE", << >>, << >>)}

IdentificationCalls == {
  Call("getDriverKey",       "GET_DRIVER_KEY",       << >>, << "string" >>),
  Call("getHardwareKey",     "GET_HARDWARE_KEY",     << >>, << "string" >>),
  Call("getHardwareInfo",    "GET_HARDWARE_INFO",    << >>, << "kwargs" >>),
  Call("setFrontendMapping", "SET_FRONTEND_MAPPING", << Direction >> \o Str("mapping"), << >>),
  Call("getFrontendMapping", "GET_FRONTEND_MAPPING", << Direction >>, << "string" >>),
  Call("getNumChannels",     "GET_NUM_CHANNELS",     << Direction >>, << "size" >>),
  Call("getChannelInfo",     "GET_CHANNEL_INFO",     Chan, << "kwargs" >>),
  Call("getFullDuplex",      "GET_FULL_DUPLEX",      Chan, << "bool" >>)}

\* The remote part of getStreamFormats and getStreamArgsInfo.
StreamInfoCalls == {
  Call("getStreamFormats",      "GET_STREAM_FORMATS",       Chan, << "strings" >>),
  Call("getNativeStreamFormat", "GET_NATIVE_STREAM_FORMAT", Chan, << "string", "double" >>),
  Call("getStreamArgsInfo",     "GET_STREAM_ARGS_INFO",     Chan, << "argInfos" >>)}

SetupParams == << Direction >> \o Format \o Channels \o Args
               \o Str("clientBindPort") \o Str("statusBindPort")

\* In TCP mode the port of the server comes first, in a reply of its own.
SetupStreamCalls == {
  Call("setupStream", "SETUP_STREAM", SetupParams, << "int", "string" >>),
  [method |-> "setupStream/tcp", code |-> "SETUP_STREAM", sends |-> SetupParams,
   replies |-> << << "string" >>, << "int", "string" >> >>]}

BypassCalls == {
  Call("setupStream/none", "SETUP_STREAM_BYPASS",
       << Direction >> \o Format \o Channels \o Args, << "int" >>)}

StreamCalls == {
  Call("closeStream",      "CLOSE_STREAM",      StreamId, << >>),
  Call("activateStream",   "ACTIVATE_STREAM",
       StreamId \o Flags \o TimeNs \o Size("numElems"), << "int" >>),
  Call("deactivateStream", "DEACTIVATE_STREAM", StreamId \o Flags \o TimeNs, << "int" >>)}

AntennaCalls == {
  Call("listAntennas", "LIST_ANTENNAS", Chan,         << "strings" >>),
  Call("setAntenna",   "SET_ANTENNA",   Chan \o Name, << >>),
  Call("getAntenna",   "GET_ANTENNA",   Chan,         << "string" >>)}

DCOffsetCalls == {
  Call("hasDCOffsetMode", "HAS_DC_OFFSET_MODE", Chan,                   << "bool" >>),
  Call("setDCOffsetMode", "SET_DC_OFFSET_MODE", Chan \o Automatic,      << >>),
  Call("getDCOffsetMode", "GET_DC_OFFSET_MODE", Chan,                   << "bool" >>),
  Call("hasDCOffset",     "HAS_DC_OFFSET",      Chan,                   << "bool" >>),
  Call("setDCOffset",     "SET_DC_OFFSET",      Chan \o Cplx("offset"), << >>),
  Call("getDCOffset",     "GET_DC_OFFSET",      Chan,                   << "complex" >>)}

CorrectionCalls == {
  Call("hasIQBalance", "HAS_IQ_BALANCE_MODE", Chan,                    << "bool" >>),
  Call("setIQBalance", "SET_IQ_BALANCE_MODE", Chan \o Cplx("balance"), << >>),
  Call("getIQBalance", "GET_IQ_BALANCE_MODE", Chan,                    << "complex" >>),
  Call("hasIQBalanceMode", "HAS_IQ_BALANCE_MODE_AUTO", Chan,              << "bool" >>),
  Call("setIQBalanceMode", "SET_IQ_BALANCE_MODE_AUTO", Chan \o Automatic, << >>),
  Call("getIQBalanceMode", "GET_IQ_BALANCE_MODE_AUTO", Chan,              << "bool" >>),
  Call("hasFrequencyCorrection", "HAS_FREQUENCY_CORRECTION", Chan,          << "bool" >>),
  Call("setFrequencyCorrection", "SET_FREQUENCY_CORRECTION", Chan \o Value, << >>),
  Call("getFrequencyCorrection", "GET_FREQUENCY_CORRECTION", Chan,          << "double" >>)}

GainCalls == {
  Call("listGains",         "LIST_GAINS",             Chan,                  << "strings" >>),
  Call("hasGainMode",       "HAS_GAIN_MODE",          Chan,                  << "bool" >>),
  Call("setGainMode",       "SET_GAIN_MODE",          Chan \o Automatic,     << >>),
  Call("getGainMode",       "GET_GAIN_MODE",          Chan,                  << "bool" >>),
  Call("setGain",           "SET_GAIN",               Chan \o Value,         << >>),
  Call("setGain/name",      "SET_GAIN_ELEMENT",       Chan \o Name \o Value, << >>),
  Call("getGain",           "GET_GAIN",               Chan,                  << "double" >>),
  Call("getGain/name",      "GET_GAIN_ELEMENT",       Chan \o Name,          << "double" >>),
  Call("getGainRange",      "GET_GAIN_RANGE",         Chan,                  << "range" >>),
  Call("getGainRange/name", "GET_GAIN_RANGE_ELEMENT", Chan \o Name,          << "range" >>)}

FrequencyCalls == {
  Call("setFrequency",      "SET_FREQUENCY",           Chan \o Dbl("frequency") \o Args, << >>),
  Call("setFrequency/name", "SET_FREQUENCY_COMPONENT",
       Chan \o Name \o Dbl("frequency") \o Args, << >>),
  Call("getFrequency",      "GET_FREQUENCY",           Chan,         << "double" >>),
  Call("getFrequency/name", "GET_FREQUENCY_COMPONENT", Chan \o Name, << "double" >>),
  Call("listFrequencies",   "LIST_FREQUENCIES",        Chan,         << "strings" >>),
  Call("getFrequencyRange", "GET_FREQUENCY_RANGE",     Chan,         << "ranges" >>),
  Call("getFrequencyRange/name", "GET_FREQUENCY_RANGE_COMPONENT", Chan \o Name, << "ranges" >>),
  Call("getFrequencyArgsInfo",   "GET_FREQUENCY_ARGS_INFO",       Chan, << "argInfos" >>)}

RateCalls == {
  Call("setSampleRate",      "SET_SAMPLE_RATE",       Chan \o Dbl("rate"), << >>),
  Call("getSampleRate",      "GET_SAMPLE_RATE",       Chan,                << "double" >>),
  Call("listSampleRates",    "LIST_SAMPLE_RATES",     Chan,                << "doubles" >>),
  Call("getSampleRateRange", "GET_SAMPLE_RATE_RANGE", Chan,                << "ranges" >>),
  Call("setBandwidth",       "SET_BANDWIDTH",         Chan \o Dbl("bw"),   << >>),
  Call("getBandwidth",       "GET_BANDWIDTH",         Chan,                << "double" >>),
  Call("listBandwidths",     "LIST_BANDWIDTHS",       Chan,                << "doubles" >>),
  Call("getBandwidthRange",  "GET_BANDWIDTH_RANGE",   Chan,                << "ranges" >>)}

ClockCalls == {
  Call("setMasterClockRate",     "SET_MASTER_CLOCK_RATE",  Dbl("rate"), << >>),
  Call("getMasterClockRate",     "GET_MASTER_CLOCK_RATE",  << >>,       << "double" >>),
  Call("getMasterClockRates",    "GET_MASTER_CLOCK_RATES", << >>,       << "ranges" >>),
  Call("setReferenceClockRate",  "SET_REF_CLOCK_RATE",     Dbl("rate"), << >>),
  Call("getReferenceClockRate",  "GET_REF_CLOCK_RATE",     << >>,       << "double" >>),
  Call("getReferenceClockRates", "GET_REF_CLOCK_RATES",    << >>,       << "ranges" >>),
  Call("listClockSources",       "LIST_CLOCK_SOURCES",     << >>,       << "strings" >>),
  Call("setClockSource",         "SET_CLOCK_SOURCE",       Source,      << >>),
  Call("getClockSource",         "GET_CLOCK_SOURCE",       << >>,       << "string" >>)}

TimeCalls == {
  Call("listTimeSources", "LIST_TIME_SOURCES", << >>,          << "strings" >>),
  Call("setTimeSource",   "SET_TIME_SOURCE",   Source,         << >>),
  Call("getTimeSource",   "GET_TIME_SOURCE",   << >>,          << "string" >>),
  Call("hasHardwareTime", "HAS_HARDWARE_TIME", What,           << "bool" >>),
  Call("getHardwareTime", "GET_HARDWARE_TIME", What,           << "long" >>),
  Call("setHardwareTime", "SET_HARDWARE_TIME", TimeNs \o What, << >>),
  Call("setCommandTime",  "SET_COMMAND_TIME",  TimeNs \o What, << >>)}

SensorCalls == {
  Call("listSensors",           "LIST_SENSORS",            << >>,        << "strings" >>),
  Call("getSensorInfo",         "GET_SENSOR_INFO",         Name,         << "argInfo" >>),
  Call("readSensor",            "READ_SENSOR",             Name,         << "string" >>),
  Call("listSensors/channel",   "LIST_CHANNEL_SENSORS",    Chan,         << "strings" >>),
  Call("getSensorInfo/channel", "GET_CHANNEL_SENSOR_INFO", Chan \o Name, << "argInfo" >>),
  Call("readSensor/channel",    "READ_CHANNEL_SENSOR",     Chan \o Name, << "string" >>)}

RegisterCalls == {
  Call("listRegisterInterfaces", "LIST_REGISTER_INTERFACES", << >>, << "strings" >>),
  Call("writeRegister/name", "WRITE_REGISTER_NAMED", Name \o Addr \o Reg, << >>),
  Call("readRegister/name",  "READ_REGISTER_NAMED",  Name \o Addr,        << "unsigned" >>),
  Call("writeRegister",      "WRITE_REGISTER",       Addr \o Reg,         << >>),
  Call("readRegister",       "READ_REGISTER",        Addr,                << "unsigned" >>),
  Call("writeRegisters",     "WRITE_REGISTERS",
       Name \o Addr \o << << "value", "unsigneds" >> >>, << >>),
  Call("readRegisters",      "READ_REGISTERS", Name \o Addr \o Size("length"), << "unsigneds" >>)}

SettingCalls == {
  Call("getSettingInfo",         "GET_SETTING_INFO",         << >>,           << "argInfos" >>),
  Call("writeSetting",           "WRITE_SETTING",            Key \o Setting,  << >>),
  Call("readSetting",            "READ_SETTING",             Key,             << "string" >>),
  Call("getSettingInfo/channel", "GET_CHANNEL_SETTING_INFO", Chan,            << "argInfos" >>),
  Call("writeSetting/channel",   "WRITE_CHANNEL_SETTING", Chan \o Key \o Setting, << >>),
  Call("readSetting/channel",    "READ_CHANNEL_SETTING",     Chan \o Key,     << "string" >>)}

GPIOCalls == {
  Call("listGPIOBanks",     "LIST_GPIO_BANKS",       << >>,               << "strings" >>),
  Call("writeGPIO",         "WRITE_GPIO",            Bank \o Reg,         << >>),
  Call("writeGPIO/mask",    "WRITE_GPIO_MASKED",     Bank \o Reg \o Mask, << >>),
  Call("readGPIO",          "READ_GPIO",             Bank,                << "unsigned" >>),
  Call("writeGPIODir",      "WRITE_GPIO_DIR",        Bank \o Dir,         << >>),
  Call("writeGPIODir/mask", "WRITE_GPIO_DIR_MASKED", Bank \o Dir \o Mask, << >>),
  Call("readGPIODir",       "READ_GPIO_DIR",         Bank,                << "unsigned" >>)}

BusCalls == {
  Call("writeI2C",    "WRITE_I2C",    BusAddr \o Data,                 << >>),
  Call("readI2C",     "READ_I2C",     BusAddr \o Size("numBytes"),     << "string" >>),
  Call("transactSPI", "TRANSACT_SPI",
       BusAddr \o << << "data", "unsigned" >> >> \o Size("numBits"),   << "unsigned" >>),
  Call("listUARTs",   "LIST_UARTS",   << >>,                           << "strings" >>),
  Call("writeUART",   "WRITE_UART",   Which \o Data,                   << >>),
  Call("readUART",    "READ_UART",    Which \o Num("timeoutUs"),       << "string" >>)}

ClientCalls ==
  UNION {FactoryCalls, MakeCalls, IdentificationCalls, StreamInfoCalls, SetupStreamCalls,
         BypassCalls, StreamCalls, AntennaCalls, DCOffsetCalls, CorrectionCalls, GainCalls,
         FrequencyCalls, RateCalls, ClockCalls, TimeCalls, SensorCalls, RegisterCalls,
         SettingCalls, GPIOCalls, BusCalls}
-----------------------------------------------------------------------------
(* The handler.                                                            *)

FactoryCases == {
  Case("FIND",          Args,  "enumerate",   << "kwargsList" >>),
  Case("MAKE",          Args,  "make",        << >>),
  Case("UNMAKE",        << >>, "unmake",      << >>),
  Case("GET_SERVER_ID", << >>, "getServerID", << "string" >>)}

IdentificationCases == {
  Case("GET_DRIVER_KEY",       << >>, "getDriverKey",    << "string" >>),
  Case("GET_HARDWARE_KEY",     << >>, "getHardwareKey",  << "string" >>),
  Case("GET_HARDWARE_INFO",    << >>, "getHardwareInfo", << "kwargs" >>),
  Case("SET_FRONTEND_MAPPING", << Direction >> \o Str("mapping"), "setFrontendMapping", << >>),
  Case("GET_FRONTEND_MAPPING", << Direction >>, "getFrontendMapping", << "string" >>),
  Case("GET_NUM_CHANNELS",     << Direction >>, "getNumChannels",     << "size" >>),
  Case("GET_FULL_DUPLEX",      Chan, "getFullDuplex", << "bool" >>),
  CaseIf("GET_CHANNEL_INFO", "GET_CHANNEL_INFO", Chan, "getChannelInfo", << "kwargs" >>)}

StreamInfoCases == {
  Case("GET_STREAM_FORMATS",       Chan, "getStreamFormats",      << "strings" >>),
  Case("GET_NATIVE_STREAM_FORMAT", Chan, "getNativeStreamFormat", << "string", "double" >>),
  Case("GET_STREAM_ARGS_INFO",     Chan, "getStreamArgsInfo",     << "argInfos" >>)}

\* The two branches on remote:prot, which the client always adds to the arguments.
SetupStreamCase(tcp) ==
  [code |-> "SETUP_STREAM", reads |-> SetupParams, feature |-> "always",
   method |-> IF tcp THEN "setupStream/tcp" ELSE "setupStream",
   packs |-> IF tcp THEN << << "string" >>, << "int", "string" >> >>
             ELSE << << "int", "string" >> >>]

\* A faulty variant: two numbers of ACTIVATE_STREAM change places.
StreamCasesSwapped == {
  Case("CLOSE_STREAM",    StreamId, "closeStream", << >>),
  Case("ACTIVATE_STREAM", Flags \o StreamId \o TimeNs \o Size("numElems"),
       "activateStream", << "int" >>),
  Case("DEACTIVATE_STREAM", StreamId \o Flags \o TimeNs, "deactivateStream", << "int" >>),
  Case("SETUP_STREAM_BYPASS", << Direction >> \o Format \o Channels \o Args,
       "setupStream/none", << "int" >>)}

StreamCases == {
  Case("CLOSE_STREAM",    StreamId, "closeStream", << >>),
  Case("ACTIVATE_STREAM", StreamId \o Flags \o TimeNs \o Size("numElems"),
       "activateStream", << "int" >>),
  Case("DEACTIVATE_STREAM", StreamId \o Flags \o TimeNs, "deactivateStream", << "int" >>),
  Case("SETUP_STREAM_BYPASS", << Direction >> \o Format \o Channels \o Args,
       "setupStream/none", << "int" >>)}

AntennaCases == {
  Case("LIST_ANTENNAS", Chan,         "listAntennas", << "strings" >>),
  Case("SET_ANTENNA",   Chan \o Name, "setAntenna",   << >>),
  Case("GET_ANTENNA",   Chan,         "getAntenna",   << "string" >>)}

DCOffsetCases == {
  Case("HAS_DC_OFFSET_MODE", Chan,                   "hasDCOffsetMode", << "bool" >>),
  Case("SET_DC_OFFSET_MODE", Chan \o Automatic,      "setDCOffsetMode", << >>),
  Case("GET_DC_OFFSET_MODE", Chan,                   "getDCOffsetMode", << "bool" >>),
  Case("HAS_DC_OFFSET",      Chan,                   "hasDCOffset",     << "bool" >>),
  Case("SET_DC_OFFSET",      Chan \o Cplx("offset"), "setDCOffset",     << >>),
  Case("GET_DC_OFFSET",      Chan,                   "getDCOffset",     << "complex" >>)}

IQMode == "IQ_BALANCE_MODE"
IQBalanceCases == {
  Case("HAS_IQ_BALANCE_MODE", Chan,                    "hasIQBalance", << "bool" >>),
  Case("SET_IQ_BALANCE_MODE", Chan \o Cplx("balance"), "setIQBalance", << >>),
  Case("GET_IQ_BALANCE_MODE", Chan,                    "getIQBalance", << "complex" >>),
  CaseIf(IQMode, "HAS_IQ_BALANCE_MODE_AUTO", Chan,              "hasIQBalanceMode", << "bool" >>),
  CaseIf(IQMode, "SET_IQ_BALANCE_MODE_AUTO", Chan \o Automatic, "setIQBalanceMode", << >>),
  CaseIf(IQMode, "GET_IQ_BALANCE_MODE_AUTO", Chan,              "getIQBalanceMode", << "bool" >>)}

Correction == "FREQUENCY_CORRECTION_API"
CorrectionCases == {
  CaseIf(Correction, "HAS_FREQUENCY_CORRECTION", Chan,
         "hasFrequencyCorrection", << "bool" >>),
  CaseIf(Correction, "SET_FREQUENCY_CORRECTION", Chan \o Value,
         "setFrequencyCorrection", << >>),
  CaseIf(Correction, "GET_FREQUENCY_CORRECTION", Chan,
         "getFrequencyCorrection", << "double" >>)}

GainCases == {
  Case("LIST_GAINS",             Chan,                  "listGains",         << "strings" >>),
  Case("HAS_GAIN_MODE",          Chan,                  "hasGainMode",       << "bool" >>),
  Case("SET_GAIN_MODE",          Chan \o Automatic,     "setGainMode",       << >>),
  Case("GET_GAIN_MODE",          Chan,                  "getGainMode",       << "bool" >>),
  Case("SET_GAIN",               Chan \o Value,         "setGain",           << >>),
  Case("SET_GAIN_ELEMENT",       Chan \o Name \o Value, "setGain/name",      << >>),
  Case("GET_GAIN",               Chan,                  "getGain",           << "double" >>),
  Case("GET_GAIN_ELEMENT",       Chan \o Name,          "getGain/name",      << "double" >>),
  Case("GET_GAIN_RANGE",         Chan,                  "getGainRange",      << "range" >>),
  Case("GET_GAIN_RANGE_ELEMENT", Chan \o Name,          "getGainRange/name", << "range" >>)}

FrequencyCases == {
  Case("SET_FREQUENCY", Chan \o Dbl("frequency") \o Args, "setFrequency", << >>),
  Case("SET_FREQUENCY_COMPONENT", Chan \o Name \o Dbl("frequency") \o Args,
       "setFrequency/name", << >>),
  Case("GET_FREQUENCY",           Chan,         "getFrequency",      << "double" >>),
  Case("GET_FREQUENCY_COMPONENT", Chan \o Name, "getFrequency/name", << "double" >>),
  Case("LIST_FREQUENCIES",        Chan,         "listFrequencies",   << "strings" >>),
  Case("GET_FREQUENCY_RANGE",     Chan,         "getFrequencyRange", << "ranges" >>),
  Case("GET_FREQUENCY_RANGE_COMPONENT", Chan \o Name, "getFrequencyRange/name", << "ranges" >>),
  Case("GET_FREQUENCY_ARGS_INFO", Chan, "getFrequencyArgsInfo", << "argInfos" >>)}

RateCases == {
  Case("SET_SAMPLE_RATE",   Chan \o Dbl("rate"), "setSampleRate",   << >>),
  Case("GET_SAMPLE_RATE",   Chan,                "getSampleRate",   << "double" >>),
  Case("LIST_SAMPLE_RATES", Chan,                "listSampleRates", << "doubles" >>),
  CaseIf("GET_SAMPLE_RATE_RANGE", "GET_SAMPLE_RATE_RANGE", Chan,
         "getSampleRateRange", << "ranges" >>)}

BandwidthCases == {
  Case("SET_BANDWIDTH",   Chan \o Dbl("bw"), "setBandwidth",   << >>),
  Case("GET_BANDWIDTH",   Chan,              "getBandwidth",   << "double" >>),
  Case("LIST_BANDWIDTHS", Chan,              "listBandwidths", << "doubles" >>),
  CaseIf("GET_BANDWIDTH_RANGE", "GET_BANDWIDTH_RANGE", Chan,
         "getBandwidthRange", << "ranges" >>)}

RefClock == "REF_CLOCK_RATE_API"
ClockCases == {
  Case("SET_MASTER_CLOCK_RATE",  Dbl("rate"), "setMasterClockRate",  << >>),
  Case("GET_MASTER_CLOCK_RATE",  << >>,       "getMasterClockRate",  << "double" >>),
  Case("GET_MASTER_CLOCK_RATES", << >>,       "getMasterClockRates", << "ranges" >>),
  CaseIf(RefClock, "SET_REF_CLOCK_RATE",  Dbl("rate"), "setReferenceClockRate",  << >>),
  CaseIf(RefClock, "GET_REF_CLOCK_RATE",  << >>, "getReferenceClockRate",  << "double" >>),
  CaseIf(RefClock, "GET_REF_CLOCK_RATES", << >>, "getReferenceClockRates", << "ranges" >>),
  Case("LIST_CLOCK_SOURCES", << >>,  "listClockSources", << "strings" >>),
  Case("SET_CLOCK_SOURCE",   Source, "setClockSource",   << >>),
  Case("GET_CLOCK_SOURCE",   << >>,  "getClockSource",   << "string" >>)}

TimeCases == {
  Case("LIST_TIME_SOURCES", << >>,          "listTimeSources", << "strings" >>),
  Case("SET_TIME_SOURCE",   Source,         "setTimeSource",   << >>),
  Case("GET_TIME_SOURCE",   << >>,          "getTimeSource",   << "string" >>),
  Case("HAS_HARDWARE_TIME", What,           "hasHardwareTime", << "bool" >>),
  Case("GET_HARDWARE_TIME", What,           "getHardwareTime", << "long" >>),
  Case("SET_HARDWARE_TIME", TimeNs \o What, "setHardwareTime", << >>),
  Case("SET_COMMAND_TIME",  TimeNs \o What, "setCommandTime",  << >>)}

SensorCases == {
  Case("LIST_SENSORS",            << >>,        "listSensors",           << "strings" >>),
  Case("GET_SENSOR_INFO",         Name,         "getSensorInfo",         << "argInfo" >>),
  Case("READ_SENSOR",             Name,         "readSensor",            << "string" >>),
  Case("LIST_CHANNEL_SENSORS",    Chan,         "listSensors/channel",   << "strings" >>),
  Case("GET_CHANNEL_SENSOR_INFO", Chan \o Name, "getSensorInfo/channel", << "argInfo" >>),
  Case("READ_CHANNEL_SENSOR",     Chan \o Name, "readSensor/channel",    << "string" >>)}

NamedReg  == "NAMED_REGISTER_API"
NamedRegs == "NAMED_REGISTERS_API"
RegisterCases == {
  Case("WRITE_REGISTER", Addr \o Reg, "writeRegister", << >>),
  Case("READ_REGISTER",  Addr,        "readRegister",  << "unsigned" >>),
  CaseIf(NamedReg, "LIST_REGISTER_INTERFACES", << >>, "listRegisterInterfaces", << "strings" >>),
  CaseIf(NamedReg, "WRITE_REGISTER_NAMED", Name \o Addr \o Reg, "writeRegister/name", << >>),
  CaseIf(NamedReg, "READ_REGISTER_NAMED",  Name \o Addr, "readRegister/name", << "unsigned" >>),
  CaseIf(NamedRegs, "WRITE_REGISTERS", Name \o Addr \o << << "value", "unsigneds" >> >>,
         "writeRegisters", << >>),
  CaseIf(NamedRegs, "READ_REGISTERS", Name \o Addr \o Size("length"),
         "readRegisters", << "unsigneds" >>)}

ChanSettings == "CHANNEL_SETTINGS"
SettingCases == {
  Case("GET_SETTING_INFO", << >>,          "getSettingInfo", << "argInfos" >>),
  Case("WRITE_SETTING",    Key \o Setting, "writeSetting",   << >>),
  Case("READ_SETTING",     Key,            "readSetting",    << "string" >>),
  CaseIf(ChanSettings, "GET_CHANNEL_SETTING_INFO", Chan,
         "getSettingInfo/channel", << "argInfos" >>),
  CaseIf(ChanSettings, "WRITE_CHANNEL_SETTING", Chan \o Key \o Setting,
         "writeSetting/channel", << >>),
  CaseIf(ChanSettings, "READ_CHANNEL_SETTING", Chan \o Key,
         "readSetting/channel", << "string" >>)}

GPIOCases == {
  Case("LIST_GPIO_BANKS",       << >>,               "listGPIOBanks",     << "strings" >>),
  Case("WRITE_GPIO",            Bank \o Reg,         "writeGPIO",         << >>),
  Case("WRITE_GPIO_MASKED",     Bank \o Reg \o Mask, "writeGPIO/mask",    << >>),
  Case("READ_GPIO",             Bank,                "readGPIO",          << "unsigned" >>),
  Case("WRITE_GPIO_DIR",        Bank \o Dir,         "writeGPIODir",      << >>),
  Case("WRITE_GPIO_DIR_MASKED", Bank \o Dir \o Mask, "writeGPIODir/mask", << >>),
  Case("READ_GPIO_DIR",         Bank,                "readGPIODir",       << "unsigned" >>)}

BusCases == {
  Case("WRITE_I2C",  BusAddr \o Data,             "writeI2C",  << >>),
  Case("READ_I2C",   BusAddr \o Size("numBytes"), "readI2C",   << "string" >>),
  Case("TRANSACT_SPI", BusAddr \o << << "data", "unsigned" >> >> \o Size("numBits"),
       "transactSPI", << "unsigned" >>),
  Case("LIST_UARTS", << >>,                       "listUARTs", << "strings" >>),
  Case("WRITE_UART", Which \o Data,               "writeUART", << >>),
  Case("READ_UART",  Which \o Num("timeoutUs"),   "readUART",  << "string" >>)}

HandlerCases(tcp) ==
  UNION {FactoryCases, IdentificationCases, StreamInfoCases, {SetupStreamCase(tcp)},
         StreamCases, AntennaCases, DCOffsetCases, IQBalanceCases, CorrectionCases, GainCases,
         FrequencyCases, RateCases, BandwidthCases, ClockCases, TimeCases, SensorCases,
         RegisterCases, SettingCases, GPIOCases, BusCases}
=============================================================================
