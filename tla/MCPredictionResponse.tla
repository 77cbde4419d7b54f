----------------------- MODULE MCPredictionResponse -----------------------
EXTENDS Endpoints

\* A frame may have the columns 0 and 1 beside the columns "0" and "1".
MCNames == {"1", "0", "prediction", "predictions"}
MCNumberNames == {"0", "1"}
MCLabels == <<"1", "0">>
MCTargets == {"0", "predictions"}
=============================================================================
